---- MODULE Spec2Model ----
(***************************************************************************)
(* B+tree erase with rebalancing (src/src/btree_erase.c) over pages that   *)
(* carry coupled cursors and extended-key blobs.                           *)
(*                                                                         *)
(* A page is a record; its slot array is a fixed-length sequence that      *)
(* keeps stale entries beyond `count`, exactly as the byte buffer of the   *)
(* C code does.  Slot i of the code is index i+1 of the sequence.          *)
(***************************************************************************)
EXTENDS Integers, Sequences, FiniteSets, TLC

VARIABLES
    pages,      \* page id -> page (node header, slot array, dirty bit, ...)
    root,       \* btree_get_rootpage(be)
    blobs,      \* the blob ids that are allocated in the blob store
    nextblob,   \* the blob store's allocation counter
    cursors,    \* cursor id -> cursor
    last,       \* what the last btree_erase call was given and returned
    nerase,     \* number of btree_erase calls so far
    ncursor,    \* number of cursor operations so far
    maxkeys,    \* btree_get_maxkeys(be): slots per page, set at creation
    pageobj     \* one Page object, its descriptors and buffers, the device

vars ==
    <<pages, root, blobs, nextblob, cursors, last, nerase, ncursor, maxkeys,
      pageobj>>

(***************************************************************************)
(* Bounds of the model.                                                    *)
(***************************************************************************)
MaxErases == 2      \* btree_erase calls per behaviour
MaxCursorOps == 1   \* cursor positionings per behaviour
MaxFaultCall == 2   \* the call of a primitive that is made to fail
MaxFetchCall == 6   \* the db_fetch_page call that is made to fail
MaxScenarioErases == 4  \* btree_erase calls of a recorded sequence
MaxListOps == 4     \* operations on the cursor lists per behaviour
MaxPositionOps == 3 \* cursor operations and evictions per behaviour
MaxPageOps == 4     \* calls on the Page object per behaviour
MaxDescs == 2       \* heap descriptors of the Page object

\* btree_get_minkeys(maxkeys): the rebalance threshold, half of maxkeys
btree_get_minkeys(m) == m \div 2

\* status codes
HAM_SUCCESS == "SUCCESS"
HAM_KEY_NOT_FOUND == "KEY_NOT_FOUND"

\* key flags
KEY_IS_EXTENDED == "EXTENDED"
KEY_BLOB_SIZE_TINY == "TINY"
KEY_BLOB_SIZE_SMALL == "SMALL"
KEY_BLOB_SIZE_EMPTY == "EMPTY"
BlobFlags == {KEY_BLOB_SIZE_TINY, KEY_BLOB_SIZE_SMALL, KEY_BLOB_SIZE_EMPTY}

\* flags for my_replace_key
NOFLUSH == "NOFLUSH"
INTERNAL_KEY == "INTERNAL_KEY"

PAGE_TYPE_B_ROOT == "B_ROOT"
PAGE_TYPE_B_INDEX == "B_INDEX"

(***************************************************************************)
(* int_key_t: flags, size, record id / child pointer, key bytes.  `k` is   *)
(* the key the bytes (and, for an extended key, the blob) spell; `blob` is *)
(* the blob id stored in the last 8 bytes of the key bytes.                *)
(***************************************************************************)
int_key_t(k, ptr, flags, blob, size) ==
    [k |-> k, ptr |-> ptr, flags |-> flags, blob |-> blob, size |-> size]

ZeroKey == int_key_t(0, 0, {}, 0, 0)

\* key_get_extended_rid: the blob id held in the key bytes
key_get_extended_rid(bte) == bte.blob

IsExt(bte) == KEY_IS_EXTENDED \in bte.flags

RECURSIVE SumSeq(_)
SumSeq(s) == IF s = <<>> THEN 0 ELSE Head(s) + SumSeq(Tail(s))

RECURSIVE Flatten(_)
Flatten(ss) == IF ss = <<>> THEN <<>> ELSE Head(ss) \o Flatten(Tail(ss))

(***************************************************************************)
(* Initial trees.  A shape lists, for every internal node above the        *)
(* leaves, the key counts of its leaves.  One group of one leaf is a leaf  *)
(* root; one group is a tree of height 2; several groups hang under a root *)
(* of their own.  The i-th key in leaf order is i, and a separator is the  *)
(* smallest key of the subtree to its right; in a shape with `gap` the     *)
(* i-th key is 2i and the separator is 2i-1, a key that has been erased    *)
(* from its leaf.                                                          *)
(***************************************************************************)
Shape(m, gap, groups) == [maxkeys |-> m, gap |-> gap, groups |-> groups]

\* trees of height 1 and 2
SmallShapes ==
    { Shape(4, FALSE, << <<0>> >>), Shape(4, FALSE, << <<1>> >>),
      Shape(4, FALSE, << <<3>> >>),
      Shape(4, FALSE, << <<2, 2>> >>),
      Shape(4, FALSE, << <<2, 3, 2>> >>),
      Shape(4, TRUE, << <<3, 2, 4>> >>) }

\* trees of height 3, and the two-leaf tree of keys 1..8
BigShapes ==
    { Shape(4, FALSE, << <<4, 4>> >>),
      Shape(4, FALSE, << <<2, 2, 2>>, <<2, 2, 2>> >>),
      Shape(4, TRUE, << <<2, 2, 2>>, <<2, 2, 3, 2>> >>),
      Shape(4, FALSE, << <<2, 3, 2, 2>>, <<2, 2, 2>> >>) }

\* trees of height 3 whose internal nodes differ by four keys: a shift
\* between them moves more than the one key that rotates through the root
WideShapes ==
    { Shape(5, FALSE, << <<2, 2, 2>>, <<2, 2, 2, 2, 2, 2>> >>),
      Shape(5, FALSE, << <<2, 2, 2, 2, 2, 2>>, <<2, 2, 2>> >>) }

Shapes == SmallShapes \cup BigShapes \cup WideShapes

ExtPatterns == {"none", "odd"}

CursorIds == {"c1"}

\* the null cursor pointer: the end of a page's cursor list
NoCursor == "none"

RootOf(shape) ==
    LET nl == Len(Flatten(shape.groups))
        ng == Len(shape.groups)
    IN IF ng > 1 THEN nl + ng + 1
       ELSE IF nl > 1 THEN nl + 1
       ELSE IF nl = 1 THEN 1
       ELSE 0      \* no leaf: the btree has no root page

\* page ids: every shape fits
MaxPages == CHOOSE n \in {RootOf(s) : s \in Shapes} :
                \A s \in Shapes : RootOf(s) <= n
PageIds == 1..MaxPages

\* record ids and blob ids of the initial tree: all distinct
MaxNKeys == CHOOSE n \in {SumSeq(Flatten(s.groups)) : s \in Shapes} :
                \A s \in Shapes : SumSeq(Flatten(s.groups)) <= n
FirstFreshBlob == 2 * MaxNKeys + 2

FreePage(m) ==
    [live |-> FALSE, leaf |-> TRUE, count |-> 0, ptr_left |-> 0, left |-> 0,
     right |-> 0, slots |-> [i \in 1..m |-> ZeroKey], dirty |-> FALSE,
     type |-> PAGE_TYPE_B_INDEX, cursor_list |-> NoCursor]

(***************************************************************************)
(* The pages of the tree of a shape.  Leaves take the page ids 1..NLeaves  *)
(* in key order, the nodes above them the next NGroups ids, the root of a  *)
(* tree of height 3 the id after those.  The i-th key carries the record   *)
(* id MaxNKeys + i; an extended leaf key i owns the blob 2i and the        *)
(* separator copied from it the blob 2i + 1.                               *)
(***************************************************************************)
InitPages(shape, pat) ==
    LET sizes == Flatten(shape.groups)
        NLeaves == Len(sizes)
        NGroups == Len(shape.groups)
        \* index in key order of the first key of leaf j
        LeafStart(j) == 1 + SumSeq(SubSeq(sizes, 1, j - 1))
        \* first leaf of group g
        GroupStart(g) == 1 + Len(Flatten(SubSeq(shape.groups, 1, g - 1)))
        GroupPage(g) == NLeaves + g
        \* is the i-th key an extended key?
        ExtOf(i) == pat = "odd" /\ i % 2 = 1
        Pad(s) == s \o [i \in 1..(shape.maxkeys - Len(s)) |-> ZeroKey]
        \* a leaf key: the short-record sizes are leaf-only flags
        LeafKey(i) ==
            int_key_t(IF shape.gap THEN 2 * i ELSE i, MaxNKeys + i,
                      (IF ExtOf(i) THEN {KEY_IS_EXTENDED} ELSE {})
                        \cup (IF i % 3 = 0 THEN {KEY_BLOB_SIZE_TINY} ELSE {}),
                      IF ExtOf(i) THEN 2 * i ELSE 0,
                      IF ExtOf(i) THEN 2 ELSE 1)
        \* a separator: a deep copy of the key, without the leaf-only flags
        SepKey(i, child) ==
            int_key_t(IF shape.gap THEN 2 * i - 1 ELSE i, child,
                      IF ExtOf(i) THEN {KEY_IS_EXTENDED} ELSE {},
                      IF ExtOf(i) THEN 2 * i + 1 ELSE 0,
                      IF ExtOf(i) THEN 2 ELSE 1)
        TypeOf(p) == IF RootOf(shape) = p THEN PAGE_TYPE_B_ROOT
                     ELSE PAGE_TYPE_B_INDEX
        LeafPage(j) ==
            [live |-> TRUE, leaf |-> TRUE, count |-> sizes[j], ptr_left |-> 0,
             left |-> j - 1,
             right |-> IF j = NLeaves THEN 0 ELSE j + 1,
             slots |-> Pad([i \in 1..sizes[j] |->
                                LeafKey(LeafStart(j) + i - 1)]),
             dirty |-> FALSE, type |-> TypeOf(j), cursor_list |-> NoCursor]
        GroupNode(g) ==
            [live |-> TRUE, leaf |-> FALSE,
             count |-> Len(shape.groups[g]) - 1,
             ptr_left |-> GroupStart(g),
             left |-> IF g = 1 THEN 0 ELSE GroupPage(g - 1),
             right |-> IF g = NGroups THEN 0 ELSE GroupPage(g + 1),
             slots |-> Pad([i \in 1..(Len(shape.groups[g]) - 1) |->
                                SepKey(LeafStart(GroupStart(g) + i),
                                       GroupStart(g) + i)]),
             dirty |-> FALSE, type |-> TypeOf(GroupPage(g)),
             cursor_list |-> NoCursor]
        RootNode ==
            [live |-> TRUE, leaf |-> FALSE, count |-> NGroups - 1,
             ptr_left |-> GroupPage(1), left |-> 0, right |-> 0,
             slots |-> Pad([i \in 1..(NGroups - 1) |->
                                SepKey(LeafStart(GroupStart(i + 1)),
                                       GroupPage(i + 1))]),
             dirty |-> FALSE, type |-> PAGE_TYPE_B_ROOT,
             cursor_list |-> NoCursor]
    IN [p \in PageIds |->
            IF p <= NLeaves THEN LeafPage(p)
            ELSE IF NLeaves > 1 /\ p <= NLeaves + NGroups
                THEN GroupNode(p - NLeaves)
            ELSE IF NGroups > 1 /\ p = RootOf(shape) THEN RootNode
            ELSE FreePage(shape.maxkeys)]

\* the blob ids the slots of the live pages refer to
SlotBlobs(pg) ==
    { pg[p].slots[i].blob :
        <<p, i>> \in { pi \in PageIds \X (1..Len(pg[1].slots)) :
                        /\ pg[pi[1]].live
                        /\ pi[2] <= pg[pi[1]].count
                        /\ IsExt(pg[pi[1]].slots[pi[2]]) } }

\* a BtreeCursor: m_state, m_coupled_page, m_coupled_index, the key of
\* m_uncoupled_key, m_next_in_page and m_previous_in_page
NilCursor ==
    [state |-> "nil", page |-> 0, slot |-> 0, key |-> 0,
     next |-> NoCursor, prev |-> NoCursor]

\* a call of a cursor operation: the operation, the cursor, the page and
\* the slot it was called with, and the key it returned
CursorCall(op, c, page, slot, key) ==
    [op |-> op, c |-> c, page |-> page, slot |-> slot, key |-> key,
     status |-> HAM_SUCCESS]
NoCursorCall == CursorCall("none", NoCursor, 0, 0, 0)

NoCall ==
    [key |-> 0, status |-> HAM_SUCCESS, rid |-> 0, intflags |-> {},
     wrote |-> FALSE, failed |-> "none", editc |-> FALSE, badcur |-> FALSE,
     oob |-> FALSE, nullp |-> FALSE, deadblob |-> FALSE, freed |-> {},
     merges |-> 0, shifts |-> 0, unc |-> {}, copyfail |-> FALSE,
     unrolled |-> FALSE, bedirty |-> FALSE, seq |-> <<>>,
     cop |-> NoCursorCall, visits |-> <<>>, moves |-> <<>>]

(***************************************************************************)
(* The Page object of 2page/page.cc: the inline descriptor (descs[0]) and  *)
(* the heap descriptors, datap (0: &m_data_inline), the raw buffers        *)
(* (raw_data 0: null), the node proxy, ms_page_count_flushed, and the      *)
(* device: its CRC flag and the pages written to it.                       *)
(***************************************************************************)
PPageHeaderSize == 17   \* sizeof(PPageHeader); payload[1] is its last byte

\* the payloads of a page; "zero" is the payload of zeroes
Payloads == {"zero", "a", "b"}

\* device->page_size()
PageSizes == {1024, 2048}

\* the addresses of pages: the upper and the lower 32 bits of the uint64_t
Addresses ==
    {[hi |-> 0, lo |-> 1024], [hi |-> 0, lo |-> 2048], [hi |-> 1, lo |-> 1024]}

NoAddress == [hi |-> 0, lo |-> 0]

\* no hash in the crc32 field
NoCrc == <<>>

\* MurmurHash3_x86_32(key, len, seed, out): the value written to out
MurmurHash3_x86_32(key, len, seed) == <<key, len, seed>>

\* a descriptor that does not exist
NoDesc ==
    [live |-> FALSE, raw_data |-> 0, is_dirty |-> FALSE,
     address |-> NoAddress, size |-> 0, is_without_header |-> FALSE]

\* a buffer that does not exist
NoBuf == [live |-> FALSE, crc32 |-> NoCrc, payload |-> "zero"]

\* Page::Page: the page after construction
NewPage(crc, size) ==
    [datap |-> 0,
     descs |-> [d \in 0..MaxDescs |->
                    IF d = 0 THEN [NoDesc EXCEPT !.live = TRUE, !.size = size]
                    ELSE NoDesc],
     bufs |-> [b \in 1..(MaxDescs + 1) |-> NoBuf],
     node_proxy |-> FALSE,
     flushed |-> 0,
     crc |-> crc,
     written |-> <<>>,
     op |-> "new", pop |-> "new", arg |-> 0, ret |-> 0, nops |-> 0,
     crashed |-> FALSE, thrown |-> FALSE, attempts |-> 0]

\* the lowest heap descriptor that does not exist, 0 if all exist
FreeDesc(po) ==
    IF \E d \in 1..MaxDescs : ~po.descs[d].live
    THEN CHOOSE d \in 1..MaxDescs :
            /\ ~po.descs[d].live
            /\ \A e \in 1..MaxDescs : ~po.descs[e].live => d <= e
    ELSE 0

\* Memory::allocate: the lowest buffer that does not exist, 0 if all exist
FreeBuf(po) ==
    IF \E b \in DOMAIN po.bufs : ~po.bufs[b].live
    THEN CHOOSE b \in DOMAIN po.bufs :
            /\ ~po.bufs[b].live
            /\ \A e \in DOMAIN po.bufs : ~po.bufs[e].live => b <= e
    ELSE 0

\* the call, what it returned, and the call before it
PageCall(po, op, arg, ret) ==
    [po EXCEPT !.op = op, !.pop = po.op, !.arg = arg, !.ret = ret,
               !.nops = @ + 1]

\* Page::alloc: the device gives the page a buffer and an address; the
\* payload is what the memory held, or zeroes with kInitializeWithZeroes
alloc(po, address, payload, crc32, zeroes) ==
    [po EXCEPT !.bufs[FreeBuf(po)] =
                    [live |-> TRUE, crc32 |-> crc32,
                     payload |-> IF zeroes THEN "zero" ELSE payload],
               !.descs[po.datap].raw_data = FreeBuf(po),
               !.descs[po.datap].address = address]

\* Page::fetch: the device reads the page at the address into a buffer
fetch(po, address, payload, crc32) ==
    [po EXCEPT !.bufs[FreeBuf(po)] =
                    [live |-> TRUE, crc32 |-> crc32, payload |-> payload],
               !.descs[po.datap].raw_data = FreeBuf(po),
               !.descs[po.datap].address = address]

\* the hash Page::flush computes for the page of descriptor pd
FlushHash(po, pd) ==
    MurmurHash3_x86_32(po.bufs[pd.raw_data].payload,
                       pd.size - (PPageHeaderSize - 1),
                       pd.address.lo)

\* Page::flush, the update of the crc32 field of the header
FlushStamp(po, d) ==
    IF po.crc /\ ~po.descs[d].is_without_header
    THEN [po EXCEPT !.bufs[po.descs[d].raw_data].crc32 =
                        FlushHash(po, po.descs[d])]
    ELSE po

\* device->write(address, raw_data, size); a write that fails throws
DeviceWrite(po, d, ok) ==
    IF ok
    THEN [po EXCEPT !.written =
            Append(@, [address |-> po.descs[d].address,
                       size |-> po.descs[d].size,
                       data |-> po.bufs[po.descs[d].raw_data]]),
                    !.thrown = FALSE,
                    !.attempts = @ + 1]
    ELSE [po EXCEPT !.thrown = TRUE, !.attempts = @ + 1]

\* variant of Page::flush that writes the page before it stamps the hash
FlushStampsLate(po, d, ok) ==
    IF po.descs[d].is_dirty
    THEN IF DeviceWrite(po, d, ok).thrown
         THEN DeviceWrite(po, d, ok)
         ELSE [FlushStamp(DeviceWrite(po, d, ok), d) EXCEPT
                    !.descs[d].is_dirty = FALSE,
                    !.flushed = @ + 1]
    ELSE [po EXCEPT !.thrown = FALSE]

\* variant of Page::flush that leaves the dirty bit set
FlushKeepsDirty(po, d, ok) ==
    IF po.descs[d].is_dirty
    THEN IF DeviceWrite(FlushStamp(po, d), d, ok).thrown
         THEN DeviceWrite(FlushStamp(po, d), d, ok)
         ELSE [DeviceWrite(FlushStamp(po, d), d, ok) EXCEPT
                    !.flushed = @ + 1]
    ELSE [po EXCEPT !.thrown = FALSE]

\* variant of Page::flush that goes on after a write that failed
FlushIgnoresFailure(po, d, ok) ==
    IF po.descs[d].is_dirty
    THEN [DeviceWrite(FlushStamp(po, d), d, ok) EXCEPT
                !.descs[d].is_dirty = FALSE,
                !.flushed = @ + 1]
    ELSE [po EXCEPT !.thrown = FALSE]

\* Page::flush(device, page_data); the exception of a write that fails
\* leaves the function before the dirty bit and the counter are touched
flush(po, d, ok) ==
    IF po.descs[d].is_dirty
    THEN IF DeviceWrite(FlushStamp(po, d), d, ok).thrown
         THEN DeviceWrite(FlushStamp(po, d), d, ok)
         ELSE [DeviceWrite(FlushStamp(po, d), d, ok) EXCEPT
                    !.descs[d].is_dirty = FALSE,
                    !.flushed = @ + 1]
    ELSE [po EXCEPT !.thrown = FALSE]

\* variant of Page::deep_copy_data whose new descriptor shares the bytes
DeepCopyShared(po) ==
    IF po.descs[po.datap].raw_data = 0
    THEN [po EXCEPT !.crashed = TRUE]
    ELSE [po EXCEPT !.descs[FreeDesc(po)] = po.descs[po.datap],
                    !.datap = FreeDesc(po),
                    !.node_proxy = FALSE,
                    !.ret = po.datap]

\* Page::deep_copy_data; the memcpy from a page without a buffer reads
\* through a null pointer
deep_copy_data(po) ==
    IF po.descs[po.datap].raw_data = 0
    THEN [po EXCEPT !.crashed = TRUE]
    ELSE [po EXCEPT !.descs[FreeDesc(po)] =
                        [po.descs[po.datap] EXCEPT !.raw_data = FreeBuf(po)],
                    !.bufs[FreeBuf(po)] = po.bufs[po.descs[po.datap].raw_data],
                    !.datap = FreeDesc(po),
                    !.node_proxy = FALSE,
                    !.ret = po.datap]

\* the holder of a shadow descriptor deletes it and its bytes
DeleteDesc(po, d) ==
    [po EXCEPT !.descs[d] = NoDesc,
               !.bufs[po.descs[d].raw_data] = NoBuf]

\* the writer changes the payload of the page and marks the page dirty
Written(po, payload) ==
    [po EXCEPT !.bufs[po.descs[po.datap].raw_data].payload = payload,
               !.descs[po.datap].is_dirty = TRUE,
               !.node_proxy = TRUE]

\* the initial trees of `shapes`, with the cursors `ids`, all nil
InitTree(shapes, ids) ==
    \E shape \in shapes, pat \in ExtPatterns :
        /\ pages = InitPages(shape, pat)
        /\ root = RootOf(shape)
        /\ blobs = SlotBlobs(InitPages(shape, pat))
        /\ nextblob = FirstFreshBlob
        /\ cursors = [c \in ids |-> NilCursor]
        /\ last = NoCall
        /\ nerase = 0
        /\ ncursor = 0
        /\ maxkeys = shape.maxkeys

\* the initial trees and a new Page object
InitCursors(shapes, ids) ==
    /\ pageobj = NewPage(FALSE, 1024)
    /\ InitTree(shapes, ids)

InitWith(shapes) == InitCursors(shapes, CursorIds)

(***************************************************************************)
(* The state one btree_erase call works on: the database state, the        *)
(* scratchpad (mergepage, *rid, *intflags), the database's error code, the *)
(* injected fault, and what the call did on the way.                       *)
(***************************************************************************)
FaultKinds ==
    {"uncouple", "blob_free", "blob_read", "blob_allocate", "get_slot"}

ErrOf(kind) ==
    CASE kind = "uncouple" -> "OUT_OF_MEMORY"
      [] kind = "blob_free" -> "BLOB_NOT_FOUND"
      [] kind = "blob_read" -> "IO_ERROR"
      [] kind = "blob_allocate" -> "LIMITS_REACHED"
      [] kind = "get_slot" -> "INTERNAL_ERROR"
      [] kind = "fetch" -> "DEVICE_ERROR"

NoFault == [kind |-> "none", n |-> 0]

Begin(pg, rt, bl, nb, cu, m, fault) ==
    [pages |-> pg, root |-> rt, blobs |-> bl, nextblob |-> nb,
     cursors |-> cu,
     maxkeys |-> m,
     err |-> HAM_SUCCESS,       \* db_get_error(db)
     mergepage |-> 0,           \* scratchpad.mergepage
     rid |-> 0,                 \* *scratchpad.rid
     intflags |-> {},           \* *scratchpad.intflags
     wrote |-> FALSE,           \* *rid and *intflags were written
     fkind |-> fault.kind,      \* the primitive that is made to fail ...
     fn |-> fault.n,            \* ... at its fn-th call
     fcount |-> 0,
     failed |-> FALSE,          \* a primitive has returned an error
     editc |-> FALSE,           \* slots or count of a page were written
                                \* while a cursor was coupled to the page
     badcur |-> FALSE,          \* a cursor was left on a freed page or on
                                \* a slot outside [0, count)
     oob |-> FALSE,             \* a slot outside the slot array was used
     nullp |-> FALSE,           \* a null page pointer was dereferenced
     deadblob |-> FALSE,        \* a blob id that is not allocated was used
     freed |-> {},              \* pages freed by this call
     merges |-> 0,              \* my_merge_pages calls that moved slots
     shifts |-> 0,              \* my_shift_pages calls that moved slots
     unc |-> {},                \* pages a cursor was uncoupled from
     copyfail |-> FALSE,        \* the deep copy of a blob failed
     unrolled |-> FALSE,        \* ... and left its destination key changed
     bedirty |-> FALSE,         \* btree_set_dirty, db_set_dirty were called
     visits |-> <<>>,           \* the pages my_erase_recursive has reached
     moves |-> <<>>]            \* the merges and shifts of my_rebalance

\* the kind-th primitive is called: does this call fail?
Fails(st, kind) == st.fkind = kind /\ st.fcount + 1 = st.fn

Called(st, kind) ==
    IF st.fkind = kind
    THEN [st EXCEPT !.fcount = @ + 1, !.failed = @ \/ Fails(st, kind)]
    ELSE st

\* db_set_error(db, status)
db_set_error(st, status) == [st EXCEPT !.err = status]

CoupledTo(st, p) ==
    {c \in DOMAIN st.cursors : st.cursors[c].state = "coupled"
                                /\ st.cursors[c].page = p}

InArray(st, slot) == slot >= 0 /\ slot < st.maxkeys

\* btree_node_get_key(db, node, slot)
GetKey(st, p, slot) ==
    IF InArray(st, slot) THEN st.pages[p].slots[slot + 1] ELSE ZeroKey

\* a store into slot `slot` of page p
SetKey(st, p, slot, bte) ==
    LET s1 == [st EXCEPT !.editc = @ \/ CoupledTo(st, p) # {},
                         !.oob = @ \/ ~InArray(st, slot)]
    IN IF InArray(st, slot)
       THEN [s1 EXCEPT !.pages[p].slots[slot + 1] = bte]
       ELSE s1

\* a read of slot `slot`, noted when it is outside the array
NoteRead(st, slot) == [st EXCEPT !.oob = @ \/ ~InArray(st, slot)]

\* btree_node_set_count(node, n)
SetCount(st, p, n) ==
    [st EXCEPT !.editc = @ \/ CoupledTo(st, p) # {},
               !.badcur = @ \/ \E c \in CoupledTo(st, p) :
                                    st.cursors[c].slot >= n,
               !.oob = @ \/ n < 0 \/ n > st.maxkeys,
               !.pages[p].count = IF n < 0 THEN 0 ELSE n]

\* page_set_dirty(page, 1)
page_set_dirty(st, p) == [st EXCEPT !.pages[p].dirty = TRUE]

\* memcpy/memmove of n slots from page sp, slot ss.. to page dp, slot ds..
MoveSlots(st, dp, ds, sp, ss, n) ==
    IF n <= 0 THEN st
    ELSE IF n > st.maxkeys THEN [st EXCEPT !.oob = TRUE]
    ELSE
        LET src == [i \in 0..(n - 1) |-> GetKey(st, sp, ss + i)]
            bad == \/ ss < 0 \/ ds < 0
                   \/ ss + n > st.maxkeys \/ ds + n > st.maxkeys
            old == st.pages[dp].slots
            new == [j \in 1..st.maxkeys |->
                       IF j - 1 >= ds /\ j - 1 < ds + n
                       THEN src[j - 1 - ds] ELSE old[j]]
        IN [st EXCEPT !.editc = @ \/ CoupledTo(st, dp) # {},
                      !.oob = @ \/ bad,
                      !.pages[dp].slots = new]

(***************************************************************************)
(* The cursor and the cursor list of its page: a doubly-linked list with   *)
(* the head in the page and the links in the cursors.                      *)
(***************************************************************************)
\* variant of remove_cursor_from_page that does not relink the cursor
\* behind the one that leaves
RemoveKeepsPrevious(st, c) ==
    LET cur == st.cursors[c]
        head == st.pages[cur.page].cursor_list = c
    IN [st EXCEPT
            !.pages[cur.page].cursor_list = IF head THEN cur.next ELSE @,
            !.cursors =
                [d \in DOMAIN st.cursors |->
                    IF d = c
                    THEN [cur EXCEPT !.page = 0, !.next = NoCursor,
                                     !.prev = NoCursor]
                    ELSE IF d = cur.next
                    THEN [st.cursors[d] EXCEPT
                            !.prev = IF head THEN NoCursor ELSE cur.prev]
                    ELSE st.cursors[d]]]

\* BtreeCursor::remove_cursor_from_page(page)
remove_cursor_from_page(st, c) ==
    LET cur == st.cursors[c]
        head == st.pages[cur.page].cursor_list = c
    IN [st EXCEPT
            !.pages[cur.page].cursor_list = IF head THEN cur.next ELSE @,
            !.cursors =
                [d \in DOMAIN st.cursors |->
                    IF d = c
                    THEN [cur EXCEPT !.page = 0, !.next = NoCursor,
                                     !.prev = NoCursor]
                    ELSE IF d = cur.next
                    THEN [st.cursors[d] EXCEPT
                            !.prev = IF head THEN NoCursor ELSE cur.prev]
                    ELSE IF d = cur.prev /\ ~head
                    THEN [st.cursors[d] EXCEPT !.next = cur.next]
                    ELSE st.cursors[d]]]

\* BtreeCursor::couple_to_page(page, index): the cursor points to the key
\* and is linked with the page, at the head of its list
couple_to_page(st, c, page, index) ==
    LET s1 == IF st.cursors[c].state = "coupled"
              THEN remove_cursor_from_page(st, c) ELSE st
        head == s1.pages[page].cursor_list
    IN [s1 EXCEPT
            !.pages[page].cursor_list = c,
            !.cursors =
                [d \in DOMAIN s1.cursors |->
                    IF d = c
                    THEN [state |-> "coupled", page |-> page,
                          slot |-> index, key |-> 0, next |-> head,
                          prev |-> NoCursor]
                    ELSE IF d = head THEN [s1.cursors[d] EXCEPT !.prev = c]
                    ELSE s1.cursors[d]]]

\* variant of uncouple_from_page that does not look at the cursor's state
UncoupleUnguarded(st, c) ==
    [st EXCEPT !.cursors[c].state = "uncoupled",
               !.cursors[c].slot = 0,
               !.cursors[c].next = NoCursor,
               !.cursors[c].prev = NoCursor]

\* BtreeCursor::uncouple_from_page: copy the key out, leave the list of the
\* page; a no-op for a cursor that is not coupled
uncouple_from_page(st, c) ==
    LET cur == st.cursors[c]
    IN IF cur.state # "coupled" THEN st
       ELSE [remove_cursor_from_page(st, c) EXCEPT
                !.cursors[c].state = "uncoupled",
                !.cursors[c].slot = 0,
                !.cursors[c].key = GetKey(st, cur.page, cur.slot).k]

\* BtreeCursor::set_to_nil: unlink from the page, discard the copied key
set_to_nil(st, c) ==
    [(IF st.cursors[c].state = "coupled"
      THEN remove_cursor_from_page(st, c) ELSE st)
        EXCEPT !.cursors[c] = NilCursor]

\* BtreeCursor::clone(other): the cursor takes the state of other; if
\* other is coupled the clone is enlisted on the same page
clone(st, c, other) ==
    IF st.cursors[other].state = "coupled"
    THEN couple_to_page(st, c, st.cursors[other].page,
                        st.cursors[other].slot)
    ELSE IF st.cursors[other].state = "uncoupled"
    THEN [set_to_nil(st, c) EXCEPT
            !.cursors[c].state = "uncoupled",
            !.cursors[c].key = st.cursors[other].key]
    ELSE set_to_nil(st, c)

RECURSIVE UncoupleFrom(_, _, _, _)
\* the walk of uncouple_all_cursors along the list, from cursor c on
UncoupleFrom(st, c, start, fuel) ==
    IF c = NoCursor \/ fuel = 0 THEN st
    ELSE UncoupleFrom(IF st.cursors[c].slot >= start
                      THEN uncouple_from_page(st, c) ELSE st,
                      st.cursors[c].next, start, fuel - 1)

\* variant of uncouple_all_cursors that stops behind the first cursor
UncoupleAllStopsEarly(st, page, start) ==
    UncoupleFrom(st, st.pages[page].cursor_list, start, 1)

\* BtreeCursor::uncouple_all_cursors(context, page, start)
uncouple_all_cursors(st, page, start) ==
    UncoupleFrom(st, st.pages[page].cursor_list, start,
                 Cardinality(DOMAIN st.cursors))

\* db_uncouple_all_cursors(page): every cursor coupled to the page keeps a
\* copy of its key and leaves the page's cursor list
db_uncouple_all_cursors(st, p) ==
    LET s1 == Called(st, "uncouple")
    IN IF Fails(st, "uncouple")
       THEN [st |-> s1, rc |-> ErrOf("uncouple")]
       ELSE [st |-> [uncouple_all_cursors(s1, p, 0) EXCEPT
                        !.unc = IF CoupledTo(st, p) # {} THEN @ \cup {p}
                                ELSE @],
             rc |-> HAM_SUCCESS]

\* blob_free(db, blobid, 0)
blob_free(st, blobid) ==
    LET s1 == Called(st, "blob_free")
    IN IF Fails(st, "blob_free")
       THEN [st |-> s1, rc |-> ErrOf("blob_free")]
       ELSE [st |-> [s1 EXCEPT !.blobs = @ \ {blobid},
                               !.deadblob = @ \/ blobid \notin st.blobs],
             rc |-> HAM_SUCCESS]

\* blob_read(db, blobid, &record, 0)
blob_read(st, blobid) ==
    LET s1 == Called(st, "blob_read")
    IN IF Fails(st, "blob_read")
       THEN [st |-> s1, rc |-> ErrOf("blob_read")]
       ELSE [st |-> [s1 EXCEPT !.deadblob = @ \/ blobid \notin st.blobs],
             rc |-> HAM_SUCCESS]

\* blob_allocate(db, data, size, 0, &blobid): a blob id not in use
blob_allocate(st) ==
    LET s1 == Called(st, "blob_allocate")
    IN IF Fails(st, "blob_allocate")
       THEN [st |-> s1, rc |-> ErrOf("blob_allocate"), blobid |-> 0]
       ELSE [st |-> [s1 EXCEPT !.blobs = @ \cup {st.nextblob},
                               !.nextblob = @ + 1],
             rc |-> HAM_SUCCESS, blobid |-> st.nextblob]

\* txn_free_page(txn, page)
txn_free_page(st, p) ==
    [st EXCEPT !.pages[p].live = FALSE,
               !.freed = @ \cup {p},
               !.badcur = @ \/ CoupledTo(st, p) # {}]

(***************************************************************************)
(* Slot selection.                                                         *)
(***************************************************************************)
\* the slot whose key is the largest <= key, or -1
SlotOf(pg, key) ==
    LET le == {i \in 0..(pg.count - 1) :
                    i < Len(pg.slots) /\ pg.slots[i + 1].k <= key}
    IN IF le = {} THEN -1 ELSE CHOOSE i \in le : \A j \in le : j <= i

\* btree_get_slot(db, page, key, &slot)
btree_get_slot(st, p, key) ==
    LET s1 == Called(st, "get_slot")
    IN IF Fails(st, "get_slot")
       THEN [st |-> s1, rc |-> ErrOf("get_slot"), slot |-> 0]
       ELSE [st |-> s1, rc |-> HAM_SUCCESS, slot |-> SlotOf(st.pages[p], key)]

\* db_fetch_page(db, address, flags): the page at address, or null with
\* the database's error code set to the status of the device; [st, ret]
db_fetch_page(st, addr) ==
    IF addr = 0 THEN [st |-> st, ret |-> 0]
    ELSE IF Fails(st, "fetch")
    THEN [st |-> db_set_error(Called(st, "fetch"), ErrOf("fetch")),
          ret |-> 0]
    ELSE [st |-> Called(st, "fetch"), ret |-> addr]

\* btree_traverse_tree(db, page, key, &slot): the slot of the key and the
\* fetched child; [st, slot, child]
btree_traverse_tree(st, p, key) ==
    LET slot == SlotOf(st.pages[p], key)
        fc == db_fetch_page(st, IF slot = -1 THEN st.pages[p].ptr_left
                                ELSE st.pages[p].slots[slot + 1].ptr)
    IN [st |-> fc.st, slot |-> slot, child |-> fc.ret]

(***************************************************************************)
(* Results.  A step of the code that can fail yields [st, rc (, slot)]:    *)
(* the state and the status; the step that follows takes that result.  A   *)
(* function that returns a page yields [st, ret] (ret = 0: null).          *)
(***************************************************************************)
Ok(st) == [st |-> st, rc |-> HAM_SUCCESS, slot |-> 0]
Crash(st) == [st |-> [st EXCEPT !.nullp = TRUE], rc |-> "CRASH", slot |-> 0]
Ret(st, page) == [st |-> st, ret |-> page]

\* db_set_error(db, st); return
SetErr(r) == [r EXCEPT !.st = db_set_error(r.st, r.rc)]
\* if (st) { db_set_error(db, st); return }
SetErrIf(r) == IF r.rc # HAM_SUCCESS THEN SetErr(r) ELSE r

Cnt(st, p) == st.pages[p].count
AddCount(st, p, d) == SetCount(st, p, Cnt(st, p) + d)
SetPtr(st, p, slot, ptr) ==
    SetKey(st, p, slot, [GetKey(st, p, slot) EXCEPT !.ptr = ptr])
SetPtrLeft(st, p, ptr) == [st EXCEPT !.pages[p].ptr_left = ptr]

(***************************************************************************)
(* Key primitives.  A key is named by its place: page and slot.            *)
(***************************************************************************)
\* key_set_extended_rid(db, key, blobid)
key_set_extended_rid(st, p, slot, blobid) ==
    SetKey(st, p, slot, [GetKey(st, p, slot) EXCEPT !.blob = blobid])

\* the deep copy failed: return the status; noted is whether the key at
\* (p, slot) is still `old`, the key it was when the primitive began, with
\* its blob
CopyFailed(r, p, slot, old) ==
    [st |-> [r.st EXCEPT
                !.copyfail = TRUE,
                !.unrolled = \/ @
                             \/ GetKey(r.st, p, slot) # old
                             \/ (IsExt(old) /\ old.blob \notin r.st.blobs)],
     rc |-> r.rc, slot |-> 0]

\* variant of CopyBlobStore that leaves the blob id the memcpy brought
CopyBlobShared(al, p, slot, old) ==
    IF al.rc # HAM_SUCCESS THEN CopyFailed(al, p, slot, old)
    ELSE Ok(al.st)

\* the deep copy of the extended blob of rhs for the key at (p, slot):
\* blob_read, then blob_allocate, then key_set_extended_rid
CopyBlobStore(al, p, slot, old) ==
    IF al.rc # HAM_SUCCESS THEN CopyFailed(al, p, slot, old)
    ELSE Ok(key_set_extended_rid(al.st, p, slot, al.blobid))

CopyBlobAlloc(rd, p, slot, old) ==
    IF rd.rc # HAM_SUCCESS THEN CopyFailed(rd, p, slot, old)
    ELSE CopyBlobStore(blob_allocate(rd.st), p, slot, old)

CopyBlob(st, p, slot, rhs, old) ==
    CopyBlobAlloc(blob_read(st, key_get_extended_rid(rhs)), p, slot, old)

\* my_copy_key(db, lhs, rhs): lhs is slot ls of page lp, rhs slot rs of rp
my_copy_key(st, lp, ls, rp, rs) ==
    IF IsExt(GetKey(st, rp, rs))
    THEN CopyBlob(SetKey(NoteRead(st, rs), lp, ls, GetKey(st, rp, rs)),
                  lp, ls, GetKey(st, rp, rs), GetKey(st, lp, ls))
    ELSE Ok(SetKey(NoteRead(st, rs), lp, ls, GetKey(st, rp, rs)))

\* my_replace_key: key_set_size, page_set_dirty
ReplaceKeySize(cp, p, slot, rhs) ==
    IF cp.rc # HAM_SUCCESS THEN cp
    ELSE Ok(page_set_dirty(
                SetKey(cp.st, p, slot,
                       [GetKey(cp.st, p, slot) EXCEPT !.size = rhs.size]),
                p))

\* my_replace_key: copy the extended blob of rhs
ReplaceKeyCopy(st, p, slot, rhs, old) ==
    IF IsExt(rhs) THEN CopyBlob(st, p, slot, rhs, old) ELSE Ok(st)

\* variant of ReplaceKeyBytes that keeps the blob flags of an internal key
ReplaceKeyKeepsFlags(fr, p, slot, rhs, flags, old) ==
    IF fr.rc # HAM_SUCCESS THEN fr
    ELSE ReplaceKeySize(
            ReplaceKeyCopy(
                SetKey(fr.st, p, slot,
                       [GetKey(fr.st, p, slot) EXCEPT
                            !.flags = rhs.flags,
                            !.k = rhs.k, !.blob = rhs.blob]),
                p, slot, rhs, old),
            p, slot, rhs)

\* my_replace_key: copy flags and key bytes, strip the blob flags of an
\* internal key
ReplaceKeyBytes(fr, p, slot, rhs, flags, old) ==
    IF fr.rc # HAM_SUCCESS THEN fr
    ELSE ReplaceKeySize(
            ReplaceKeyCopy(
                SetKey(fr.st, p, slot,
                       [GetKey(fr.st, p, slot) EXCEPT
                            !.flags = IF INTERNAL_KEY \in flags
                                      THEN rhs.flags \ BlobFlags
                                      ELSE rhs.flags,
                            !.k = rhs.k, !.blob = rhs.blob]),
                p, slot, rhs, old),
            p, slot, rhs)

\* my_replace_key: delete the extended blob of the overwritten key
ReplaceKeyFree(st, p, slot) ==
    IF IsExt(GetKey(st, p, slot))
    THEN blob_free(st, key_get_extended_rid(GetKey(st, p, slot)))
    ELSE Ok(st)

ReplaceKeyBody(un, p, slot, rhs, flags) ==
    IF un.rc # HAM_SUCCESS THEN SetErr(un)
    ELSE ReplaceKeyBytes(ReplaceKeyFree(NoteRead(un.st, slot), p, slot),
                         p, slot, rhs, flags, GetKey(un.st, p, slot))

\* my_replace_key(page, slot, rhs, flags): rhs is slot rs of page rp
my_replace_key(st, p, slot, rp, rs, flags) ==
    ReplaceKeyBody(db_uncouple_all_cursors(NoteRead(st, rs), p), p, slot,
                   GetKey(st, rp, rs), flags)

\* my_remove_entry: get rid of the extended key; (void)blob_free(...)
RemoveEntryFree(st, p, slot) ==
    IF IsExt(GetKey(st, p, slot))
    THEN blob_free(st, key_get_extended_rid(GetKey(st, p, slot))).st
    ELSE st

\* variant of RemoveEntryShift that leaves the gap open
RemoveEntryKeepsGap(st, p, slot) == page_set_dirty(AddCount(st, p, -1), p)

\* variant of RemoveEntryShift that does not decrement the counter
RemoveEntryKeepsCount(st, p, slot) ==
    page_set_dirty(
        IF slot # Cnt(st, p) - 1
        THEN MoveSlots(st, p, slot, p, slot + 1, Cnt(st, p) - slot - 1)
        ELSE st,
        p)

\* my_remove_entry: close the gap, decrement the counter
RemoveEntryShift(st, p, slot) ==
    page_set_dirty(
        AddCount(IF slot # Cnt(st, p) - 1
                 THEN MoveSlots(st, p, slot, p, slot + 1,
                                Cnt(st, p) - slot - 1)
                 ELSE st,
                 p, -1),
        p)

RemoveEntryBody(un, p, slot) ==
    IF un.rc # HAM_SUCCESS THEN SetErr(un)
    ELSE Ok(RemoveEntryShift(
                RemoveEntryFree(NoteRead(un.st, slot), p, slot), p, slot))

\* variant of my_remove_entry that leaves the cursors coupled
RemoveEntryCoupled(st, p, slot) == RemoveEntryBody(Ok(st), p, slot)

\* my_remove_entry(page, slot, scratchpad)
my_remove_entry(st, p, slot) ==
    RemoveEntryBody(db_uncouple_all_cursors(st, p), p, slot)

(***************************************************************************)
(* my_merge_pages.                                                         *)
(***************************************************************************)
\* uncouple the cursors of page, sibpage and (if any) ancpage, in this order
UncoupleAnc(u2, ancpage) ==
    IF u2.rc # HAM_SUCCESS THEN u2
    ELSE IF ancpage # 0 THEN db_uncouple_all_cursors(u2.st, ancpage)
    ELSE u2

\* variant of UncoupleSib that leaves the cursors of the sibling coupled
UncoupleSibSkipped(u1, sibpage, ancpage) == UncoupleAnc(u1, ancpage)


UncoupleSib(u1, sibpage, ancpage) ==
    IF u1.rc # HAM_SUCCESS THEN u1
    ELSE UncoupleAnc(db_uncouple_all_cursors(u1.st, sibpage), ancpage)

UncoupleThree(st, page, sibpage, ancpage) ==
    UncoupleSib(db_uncouple_all_cursors(st, page), sibpage, ancpage)

\* variant of MergeSeparatorPtr that takes the pointer of sibpage's first
\* key instead of its ptr_left
MergeSeparatorSkipsEdge(ck, page, sibpage) ==
    IF ck.rc # HAM_SUCCESS THEN SetErr(ck)
    ELSE Ok(AddCount(SetPtr(ck.st, page, Cnt(ck.st, page),
                            GetKey(ck.st, sibpage, 0).ptr),
                     page, 1))

\* internal node: append the anchor's separator to page; its pointer is
\* ptr_left of the sibling
MergeSeparatorPtr(ck, page, sibpage) ==
    IF ck.rc # HAM_SUCCESS THEN SetErr(ck)
    ELSE Ok(AddCount(SetPtr(ck.st, page, Cnt(ck.st, page),
                            ck.st.pages[sibpage].ptr_left),
                     page, 1))

MergeSeparatorCopy(gs, page, sibpage, ancpage) ==
    IF gs.rc # HAM_SUCCESS THEN SetErr(gs)
    ELSE MergeSeparatorPtr(
            my_copy_key(gs.st, page, Cnt(gs.st, page), ancpage, gs.slot),
            page, sibpage)

MergeSeparator(st, page, sibpage, ancpage) ==
    MergeSeparatorCopy(
        btree_get_slot(st, ancpage, GetKey(st, sibpage, 0).k),
        page, sibpage, ancpage)

\* move the slots of sibpage to the tail of page
MergeSlots(st, page, sibpage) ==
    SetCount(
        AddCount(
            page_set_dirty(
                page_set_dirty(
                    MoveSlots(st, page, Cnt(st, page), sibpage, 0,
                              Cnt(st, sibpage)),
                    page),
                sibpage),
            page, Cnt(st, sibpage)),
        sibpage, 0)

\* variant of MergeLinks that does not patch the page on the far side
MergeLinksOneSided(st, page, sibpage) ==
    IF st.pages[page].left = sibpage
    THEN [st EXCEPT !.pages[page].left = st.pages[sibpage].left]
    ELSE IF st.pages[page].right = sibpage
    THEN [st EXCEPT !.pages[page].right = st.pages[sibpage].right]
    ELSE st

\* update the linked list of pages
MergeLinks(st, page, sibpage) ==
    LET node == st.pages[page]
        sibnode == st.pages[sibpage]
        fl == db_fetch_page(st, sibnode.left)
        fr == db_fetch_page(st, sibnode.right)
    IN IF node.left = sibpage
       THEN IF sibnode.left # 0
            THEN IF fl.ret = 0 THEN Crash(fl.st).st
                 ELSE page_set_dirty(
                        [fl.st EXCEPT
                            !.pages[sibnode.left].right = sibnode.right,
                            !.pages[page].left = sibnode.left],
                        sibnode.left)
            ELSE [st EXCEPT !.pages[page].left = 0]
       ELSE IF node.right = sibpage
       THEN IF sibnode.right # 0
            THEN IF fr.ret = 0 THEN Crash(fr.st).st
                 ELSE page_set_dirty(
                        [fr.st EXCEPT
                            !.pages[page].right = sibnode.right,
                            !.pages[sibnode.right].left = sibnode.left],
                        sibnode.right)
            ELSE [st EXCEPT !.pages[page].right = 0]
       ELSE st

\* clear scratchpad.mergepage if it is one of the merged pages
MergeClear(st, page, sibpage) ==
    IF st.mergepage # 0 /\ (st.mergepage = page \/ st.mergepage = sibpage)
    THEN [st EXCEPT !.mergepage = 0] ELSE st

\* my_merge_pages, from the slot copy to the end
MergeTail(r, page, sibpage) ==
    IF r.rc # HAM_SUCCESS THEN Ret(r.st, 0)
    ELSE Ret([txn_free_page(
                MergeClear(MergeLinks(MergeSlots(r.st, page, sibpage),
                                      page, sibpage),
                           page, sibpage),
                sibpage)
                EXCEPT !.merges = @ + 1],
             sibpage)

MergeHead(un, page, sibpage, anchor) ==
    IF un.rc # HAM_SUCCESS THEN un
    ELSE IF un.st.pages[page].leaf THEN un
    ELSE IF anchor = 0 THEN Crash(un.st)
    ELSE MergeSeparator(un.st, page, sibpage, anchor)

\* my_merge_pages(page, sibpage, anchor, scratchpad)
my_merge_pages(st, page, sibpage, anchor) ==
    LET fa == db_fetch_page(st, anchor)
    IN IF page = 0 \/ sibpage = 0 THEN Ret(Crash(st).st, 0)
       ELSE MergeTail(
                MergeHead(UncoupleThree(fa.st, page, sibpage, fa.ret),
                          page, sibpage, fa.ret),
                page, sibpage)

(***************************************************************************)
(* my_shift_pages.                                                         *)
(***************************************************************************)
\* integer division of C: truncation towards zero
CDiv2(x) == IF x >= 0 THEN x \div 2 ELSE -((-x) \div 2)

\* ham_size_t c=...: the value as an unsigned number; a negative value wraps
\* to a number far beyond any slot array (capped at TLC's largest integer)
AsSize(x) == IF x >= 0 THEN x ELSE 2147483647

\* shift from sibling, internal node: rotate one key through the anchor
\* (the separator comes down to page, sibling[0] goes up);
\* (void)my_replace_key(...): the status is dropped
FromFirstCounts(rk, page, sibpage, slot) ==
    [st |-> AddCount(
                AddCount(
                    MoveSlots(rk.st, sibpage, 0, sibpage, 1,
                              AsSize(Cnt(rk.st, sibpage) - 1)),
                    page, 1),
                sibpage, -1),
     rc |-> HAM_SUCCESS, slot |-> slot]

FromFirstRotate(ck, page, sibpage, ancpage, slot) ==
    IF ck.rc # HAM_SUCCESS THEN SetErr(ck)
    ELSE FromFirstCounts(
            my_replace_key(
                SetPtrLeft(
                    SetPtr(ck.st, page, Cnt(ck.st, page),
                           ck.st.pages[sibpage].ptr_left),
                    sibpage, GetKey(ck.st, sibpage, 0).ptr),
                ancpage, slot, sibpage, 0, {INTERNAL_KEY}),
            page, sibpage, slot)

FromFirstCopy(gs, page, sibpage, ancpage) ==
    IF gs.rc # HAM_SUCCESS THEN SetErr(gs)
    ELSE FromFirstRotate(
            my_copy_key(gs.st, page, Cnt(gs.st, page), ancpage, gs.slot),
            page, sibpage, ancpage, gs.slot)

ShiftFromSibFirst(st, page, sibpage, ancpage) ==
    FromFirstCopy(btree_get_slot(st, ancpage, GetKey(st, sibpage, 0).k),
                  page, sibpage, ancpage)

\* shift from sibling, internal node: append the anchor key to the page
FromAnchorPtr(ck, page, sibpage) ==
    IF ck.rc # HAM_SUCCESS THEN SetErr(ck)
    ELSE Ok(AddCount(SetPtr(ck.st, page, Cnt(ck.st, page),
                            ck.st.pages[sibpage].ptr_left),
                     page, 1))

ShiftFromSibAnchor(st, page, sibpage, ancpage, slot) ==
    FromAnchorPtr(my_copy_key(st, page, Cnt(st, page), ancpage, slot),
                  page, sibpage)

\* shift c items from the sibling to this page, delete them in the sibling
ShiftFromSibMove(st, page, sibpage, c) ==
    MoveSlots(MoveSlots(st, page, Cnt(st, page), sibpage, 0, c),
              sibpage, 0, sibpage, c, Cnt(st, sibpage) - c)

\* variant of AnchorReplace that keeps the old key of the anchor
AnchorKept(gs, sibpage, ancpage) ==
    IF gs.rc # HAM_SUCCESS THEN SetErr(gs) ELSE Ok(gs.st)

\* replace the key of the anchor by sibling[0], found with btree_get_slot
AnchorReplace(gs, sibpage, ancpage) ==
    IF gs.rc # HAM_SUCCESS THEN SetErr(gs)
    ELSE SetErrIf(my_replace_key(gs.st, ancpage, gs.slot, sibpage, 0,
                                 {INTERNAL_KEY}))

ReplaceAnchorBySib0(st, sibpage, ancpage) ==
    AnchorReplace(btree_get_slot(st, ancpage, GetKey(st, sibpage, 0).k),
                  sibpage, ancpage)

\* internal nodes: set ptr_left of the sibling, replace the anchor key,
\* shift once more
FromTailShift(r, sibpage) ==
    IF r.rc # HAM_SUCCESS THEN r
    ELSE Ok(MoveSlots(r.st, sibpage, 0, sibpage, 1, Cnt(r.st, sibpage) - 1))

ShiftFromSibInternTail(st, sibpage, anchor) ==
    FromTailShift(
        IF anchor # 0
        THEN ReplaceAnchorBySib0(
                SetPtrLeft(st, sibpage, GetKey(st, sibpage, 0).ptr),
                sibpage, anchor)
        ELSE Ok(SetPtrLeft(st, sibpage, GetKey(st, sibpage, 0).ptr)),
        sibpage)

\* variant of ShiftFromSibCounts that does not count the key an internal
\* sibling gives to the anchor
ShiftCountsKeepKey(r, page, sibpage, c, intern) ==
    IF r.rc # HAM_SUCCESS THEN r
    ELSE Ok(AddCount(AddCount(r.st, page, c), sibpage, 0 - c))

\* update the page counters
ShiftFromSibCounts(r, page, sibpage, c, intern) ==
    IF r.rc # HAM_SUCCESS THEN r
    ELSE Ok(AddCount(AddCount(r.st, page, c), sibpage,
                     0 - c - (IF intern THEN 1 ELSE 0)))

FromRestMove(a, page, sibpage, anchor, intern, c) ==
    IF a.rc # HAM_SUCCESS THEN a
    ELSE ShiftFromSibCounts(
            IF intern
            THEN ShiftFromSibInternTail(
                    ShiftFromSibMove(a.st, page, sibpage, c),
                    sibpage, anchor)
            ELSE ReplaceAnchorBySib0(
                    ShiftFromSibMove(a.st, page, sibpage, c),
                    sibpage, anchor),
            page, sibpage, c, intern)

\* shift from sibling to this node, after the first rotation
ShiftFromSibRest(f, page, sibpage, anchor, intern) ==
    LET c0 == AsSize(CDiv2(Cnt(f.st, sibpage) - Cnt(f.st, page)))
    IN IF f.rc # HAM_SUCCESS THEN f
       ELSE IF c0 = 0 THEN f
       ELSE FromRestMove(
                IF intern
                THEN ShiftFromSibAnchor(f.st, page, sibpage, anchor, f.slot)
                ELSE f,
                page, sibpage, anchor, intern,
                IF intern THEN c0 - 1 ELSE c0)

\* shift from sibling to this node
ShiftFromSib(st, page, sibpage, anchor, intern) ==
    ShiftFromSibRest(
        IF intern THEN ShiftFromSibFirst(st, page, sibpage, anchor)
        ELSE Ok(st),
        page, sibpage, anchor, intern)

\* shift to sibling, internal node: rotate one key through the anchor
\* (the separator comes down to sibling[0], the last key of page goes up)
ToFirstCounts(rk, page, sibpage, slot) ==
    IF rk.rc # HAM_SUCCESS THEN SetErr(rk)
    ELSE [st |-> AddCount(AddCount(rk.st, page, -1), sibpage, 1),
          rc |-> HAM_SUCCESS, slot |-> slot]

ToFirstRotate(ck, page, sibpage, ancpage, slot) ==
    IF ck.rc # HAM_SUCCESS THEN SetErr(ck)
    ELSE ToFirstCounts(
            my_replace_key(
                SetPtrLeft(
                    NoteRead(SetPtr(ck.st, sibpage, 0,
                                    ck.st.pages[sibpage].ptr_left),
                             Cnt(ck.st, page) - 1),
                    sibpage, GetKey(ck.st, page, Cnt(ck.st, page) - 1).ptr),
                ancpage, slot, page, Cnt(ck.st, page) - 1,
                {NOFLUSH, INTERNAL_KEY}),
            page, sibpage, slot)

ToFirstCopy(gs, page, sibpage, ancpage) ==
    IF gs.rc # HAM_SUCCESS THEN SetErr(gs)
    ELSE ToFirstRotate(
            my_copy_key(
                MoveSlots(gs.st, sibpage, 1, sibpage, 0, Cnt(gs.st, sibpage)),
                sibpage, 0, ancpage, gs.slot),
            page, sibpage, ancpage, gs.slot)

ShiftToSibFirst(st, page, sibpage, ancpage) ==
    ToFirstCopy(btree_get_slot(st, ancpage, GetKey(st, sibpage, 0).k),
                page, sibpage, ancpage)

\* shift to sibling, internal pages: insert the anchor element
ToAnchorPtr(rk, sibpage) ==
    IF rk.rc # HAM_SUCCESS THEN SetErr(rk)
    ELSE Ok(AddCount(SetPtr(rk.st, sibpage, 0,
                            rk.st.pages[sibpage].ptr_left),
                     sibpage, 1))

ShiftToSibAnchor(st, page, sibpage, ancpage, slot) ==
    ToAnchorPtr(
        my_replace_key(
            MoveSlots(st, sibpage, 1, sibpage, 0, Cnt(st, sibpage)),
            sibpage, 0, ancpage, slot,
            {NOFLUSH} \cup (IF st.pages[page].leaf THEN {}
                            ELSE {INTERNAL_KEY})),
        sibpage)

\* shift c items from this page to the sibling, delete them in this page
ShiftToSibMove(st, page, sibpage, c, s) ==
    AddCount(
        AddCount(
            MoveSlots(
                MoveSlots(st, sibpage, c, sibpage, 0, Cnt(st, sibpage)),
                sibpage, 0, page, s + 1, c),
            page, 0 - c),
        sibpage, c)

\* internal nodes: the pointer of the highest item of the node becomes the
\* ptr_left of the sibling; the item is dropped and its blob freed
ToTailDrop(fr, page) ==
    IF fr.rc # HAM_SUCCESS THEN fr
    ELSE Ok(AddCount(fr.st, page, -1))

ToTailFree(st, page, bte) ==
    IF IsExt(bte) THEN blob_free(st, key_get_extended_rid(bte)) ELSE Ok(st)

ShiftToSibInternTail(st, page, sibpage) ==
    ToTailDrop(
        ToTailFree(
            SetPtrLeft(NoteRead(st, Cnt(st, page) - 1), sibpage,
                       GetKey(st, page, Cnt(st, page) - 1).ptr),
            page, GetKey(st, page, Cnt(st, page) - 1)),
        page)

\* variant of ToNewAnchorReplace that replaces the slot btree_get_slot found
ToNewAnchorSameSlot(gs, ancpage, bp, bs) ==
    IF gs.rc # HAM_SUCCESS THEN SetErr(gs)
    ELSE IF gs.slot < 0 THEN Ok(gs.st)
    ELSE SetErrIf(my_replace_key(gs.st, ancpage, gs.slot, bp, bs,
                                 {INTERNAL_KEY}))

\* replace the old anchor key with the new anchor key
ToNewAnchorReplace(gs, ancpage, bp, bs) ==
    IF gs.rc # HAM_SUCCESS THEN SetErr(gs)
    ELSE SetErrIf(my_replace_key(gs.st, ancpage, gs.slot + 1, bp, bs,
                                 {INTERNAL_KEY}))

ShiftToSibNewAnchor(r, ancpage, bp, bs) ==
    IF r.rc # HAM_SUCCESS THEN r
    ELSE IF ancpage = 0 THEN r
    ELSE ToNewAnchorReplace(
            btree_get_slot(r.st, ancpage, GetKey(r.st, bp, bs).k),
            ancpage, bp, bs)

ToRestMove(a, page, sibpage, anchor, intern, c) ==
    LET s == IF a.rc = HAM_SUCCESS THEN Cnt(a.st, page) - c - 1 ELSE 0
    IN IF a.rc # HAM_SUCCESS THEN a
       ELSE ShiftToSibNewAnchor(
                IF intern
                THEN ShiftToSibInternTail(
                        ShiftToSibMove(a.st, page, sibpage, c, s),
                        page, sibpage)
                ELSE Ok(ShiftToSibMove(a.st, page, sibpage, c, s)),
                anchor,
                IF intern THEN page ELSE sibpage,
                IF intern THEN s ELSE 0)

\* shift from this node to the sibling, after the first rotation
ShiftToSibRest(f, page, sibpage, anchor, intern) ==
    LET c0 == AsSize(CDiv2(Cnt(f.st, page) - Cnt(f.st, sibpage)))
    IN IF f.rc # HAM_SUCCESS THEN f
       ELSE IF c0 = 0 THEN f
       ELSE ToRestMove(
                IF intern
                THEN ShiftToSibAnchor(f.st, page, sibpage, anchor, f.slot)
                ELSE f,
                page, sibpage, anchor, intern,
                IF intern THEN c0 - 1 ELSE c0)

\* shift from this node to the sibling
ShiftToSib(st, page, sibpage, anchor, intern) ==
    ShiftToSibRest(
        IF intern THEN ShiftToSibFirst(st, page, sibpage, anchor)
        ELSE Ok(st),
        page, sibpage, anchor, intern)

\* variant of ShiftCleanup that leaves scratchpad.mergepage as it is
ShiftCleanupKeepsMark(st, page, sibpage, ancpage) ==
    [page_set_dirty(page_set_dirty(page_set_dirty(st, page), ancpage),
                    sibpage)
        EXCEPT !.shifts = @ + 1]

\* cleanup: mark pages as dirty, clear mergepage
ShiftCleanup(st, page, sibpage, ancpage) ==
    [page_set_dirty(page_set_dirty(page_set_dirty(st, page), ancpage),
                    sibpage)
        EXCEPT !.mergepage = 0, !.shifts = @ + 1]

ShiftEnd(sh, page, sibpage, ancpage) ==
    IF sh.rc # HAM_SUCCESS THEN Ret(sh.st, 0)
    ELSE Ret(ShiftCleanup(sh.st, page, sibpage, ancpage), 0)

ShiftBranch(un, page, sibpage, anchor) ==
    IF un.rc # HAM_SUCCESS THEN un
    ELSE IF Cnt(un.st, sibpage) >= Cnt(un.st, page)
    THEN ShiftFromSib(un.st, page, sibpage, anchor, ~un.st.pages[page].leaf)
    ELSE ShiftToSib(un.st, page, sibpage, anchor, ~un.st.pages[page].leaf)

\* my_shift_pages(page, sibpage, anchor, scratchpad)
my_shift_pages(st, page, sibpage, anchor) ==
    IF page = 0 \/ sibpage = 0 THEN Ret(Crash(st).st, 0)
    ELSE IF Cnt(st, page) = Cnt(st, sibpage) THEN Ret(st, 0)
    ELSE IF db_fetch_page(st, anchor).ret = 0
    THEN Ret(Crash(db_fetch_page(st, anchor).st).st, 0)
    ELSE ShiftEnd(
            ShiftBranch(UncoupleThree(db_fetch_page(st, anchor).st, page,
                                      sibpage, anchor),
                        page, sibpage, anchor),
            page, sibpage, anchor)

(***************************************************************************)
(* my_rebalance, my_erase_recursive, my_collapse_root, btree_erase.        *)
(***************************************************************************)
\* variant of RebalanceChoice that merges with the right sibling whenever
\* both siblings are too empty or missing
ChoiceMergesRight(st, page, leftpage, rightpage, lanchor, ranchor, parent) ==
    IF (leftpage = 0 \/ Cnt(st, leftpage) <= btree_get_minkeys(st.maxkeys))
        /\ rightpage # 0
        /\ Cnt(st, rightpage) <= btree_get_minkeys(st.maxkeys)
    THEN [op |-> "merge", page |-> page, sib |-> rightpage,
          anchor |-> ranchor]
    ELSE IF leftpage # 0
    THEN [op |-> "merge", page |-> leftpage, sib |-> page,
          anchor |-> lanchor]
    ELSE [op |-> "shift", page |-> page, sib |-> rightpage,
          anchor |-> ranchor]

\* variant of RebalanceChoice that, with two siblings under one anchor and
\* neither too empty, shifts with the right sibling
ChoiceShiftsRight(st, page, leftpage, rightpage, lanchor, ranchor, parent) ==
    IF leftpage # 0 /\ rightpage # 0 /\ lanchor = ranchor
        /\ Cnt(st, leftpage) > btree_get_minkeys(st.maxkeys)
        /\ Cnt(st, rightpage) > btree_get_minkeys(st.maxkeys)
    THEN [op |-> "shift", page |-> page, sib |-> rightpage,
          anchor |-> ranchor]
    ELSE IF (leftpage = 0
                \/ Cnt(st, leftpage) <= btree_get_minkeys(st.maxkeys))
            /\ (rightpage = 0
                \/ Cnt(st, rightpage) <= btree_get_minkeys(st.maxkeys))
    THEN IF lanchor # parent
         THEN [op |-> "merge", page |-> page, sib |-> rightpage,
               anchor |-> ranchor]
         ELSE [op |-> "merge", page |-> leftpage, sib |-> page,
               anchor |-> lanchor]
    ELSE IF leftpage # 0
            /\ Cnt(st, leftpage) > btree_get_minkeys(st.maxkeys)
    THEN [op |-> "shift", page |-> leftpage, sib |-> page,
          anchor |-> lanchor]
    ELSE [op |-> "shift", page |-> page, sib |-> rightpage,
          anchor |-> ranchor]

Merge(page, sibpage, anchor) ==
    [op |-> "merge", page |-> page, sib |-> sibpage, anchor |-> anchor]
Shift(page, sibpage, anchor) ==
    [op |-> "shift", page |-> page, sib |-> sibpage, anchor |-> anchor]

\* my_rebalance, once a sibling is known to exist: the call it ends in
RebalanceChoice(st, page, leftpage, rightpage, lanchor, ranchor, parent) ==
    LET mk == btree_get_minkeys(st.maxkeys)
        fewleft == leftpage # 0 /\ Cnt(st, leftpage) <= mk
        fewright == rightpage # 0 /\ Cnt(st, rightpage) <= mk
    IN
    \* one of the siblings is missing, or both are too empty: merge
    IF (leftpage = 0 \/ fewleft) /\ (rightpage = 0 \/ fewright)
    THEN IF lanchor # parent
         THEN Merge(page, rightpage, ranchor)
         ELSE Merge(leftpage, page, lanchor)
    \* otherwise choose the better of a merge or a shift
    ELSE IF leftpage # 0 /\ fewleft /\ rightpage # 0 /\ ~fewright
    THEN IF ~(ranchor = parent) /\ page = st.mergepage
         THEN Merge(leftpage, page, lanchor)
         ELSE Shift(page, rightpage, ranchor)
    ELSE IF leftpage # 0 /\ ~fewleft /\ rightpage # 0 /\ fewright
    THEN IF ~(lanchor = parent) /\ page = st.mergepage
         THEN Merge(page, rightpage, ranchor)
         ELSE Shift(leftpage, page, lanchor)
    \* choose the more effective of two shifts
    ELSE IF lanchor = ranchor
    THEN IF leftpage = 0 \/ rightpage = 0
         THEN Shift(0, 0, 0)
         ELSE IF Cnt(st, leftpage) <= Cnt(st, rightpage)
         THEN Shift(page, rightpage, ranchor)
         ELSE Shift(leftpage, page, lanchor)
    \* choose the shift with more local effect
    ELSE IF lanchor = parent
    THEN Shift(leftpage, page, lanchor)
    ELSE Shift(page, rightpage, ranchor)

\* a step of the rebalancing, recorded with the pages before and after it
Moved(st, op, page, sib, anchor, parent, slot, before) ==
    [st EXCEPT !.moves =
        Append(@, [op |-> op, page |-> page, sib |-> sib, anchor |-> anchor,
                   parent |-> parent, slot |-> slot,
                   mergepage |-> st.mergepage,
                   ok |-> ~st.failed /\ ~st.nullp /\ ~st.oob,
                   pre |-> before, post |-> st.pages])]

\* the call my_rebalance ends in; [st, ret]
RebalanceCall(st, d, parent) ==
    IF d.op = "merge"
    THEN [my_merge_pages(st, d.page, d.sib, d.anchor) EXCEPT
            !.st = Moved(@, d.op, d.page, d.sib, d.anchor, parent, 0,
                         st.pages)]
    ELSE [my_shift_pages(st, d.page, d.sib, d.anchor) EXCEPT
            !.st = Moved(@, d.op, d.page, d.sib, d.anchor, parent, 0,
                         st.pages)]

\* my_rebalance(page, left, right, lanchor, ranchor, parent, scratchpad)
my_rebalance(st, page, left, right, lanchor, ranchor, parent) ==
    LET node == st.pages[page]
        \* get the left and the right sibling of this page
        fl == db_fetch_page(st, IF left # 0 THEN node.left ELSE 0)
        fr == db_fetch_page(fl.st, IF right # 0 THEN node.right ELSE 0)
    IN IF st.mergepage = 0 THEN Ret(st, 0)
       ELSE IF fl.ret = 0 /\ fr.ret = 0
       THEN IF node.leaf THEN Ret(fr.st, 0)
            ELSE db_fetch_page(fr.st, node.ptr_left)
       ELSE IF parent = 0 THEN Ret(Crash(fr.st).st, 0)
       ELSE RebalanceCall(fr.st,
                RebalanceChoice(fr.st, page, fl.ret, fr.ret, lanchor,
                                ranchor, parent),
                parent)

\* variant of MarkMergepage that marks the lowest under-full page
MarkLowest(st, page) ==
    IF (IF st.root = page THEN Cnt(st, page) > 1
        ELSE Cnt(st, page) > btree_get_minkeys(st.maxkeys))
    THEN [st EXCEPT !.mergepage = 0]
    ELSE [st EXCEPT !.mergepage = page]

\* variant of MarkMergepage that never marks a page
MarkNever(st, page) == [st EXCEPT !.mergepage = 0]

\* variant of MarkMergepage that marks every page, under-full or not
MarkAlways(st, page) ==
    IF st.mergepage = 0 THEN [st EXCEPT !.mergepage = page] ELSE st

\* mark the nodes which may need rebalancing
MarkMergepage(st, page) ==
    LET isfew == IF st.root = page THEN Cnt(st, page) > 1
                 ELSE Cnt(st, page) > btree_get_minkeys(st.maxkeys)
    IN IF isfew THEN [st EXCEPT !.mergepage = 0]
       ELSE IF st.mergepage = 0 THEN [st EXCEPT !.mergepage = page]
       ELSE st

\* my_erase_recursive has reached `page`: the nodes which may need
\* rebalancing are marked, and the arrival is recorded with the arguments
\* of the call and the node as it is
Visit(st, page, left, right, lanchor, ranchor, parent) ==
    [MarkMergepage(st, page) EXCEPT !.visits =
        Append(@, [page |-> page, left |-> left, right |-> right,
                   lanchor |-> lanchor, ranchor |-> ranchor,
                   parent |-> parent,
                   node |-> st.pages[page],
                   isroot |-> st.root = page,
                   before |-> st.mergepage,
                   after |-> MarkMergepage(st, page).mergepage])]

\* calculate neighbor and anchor nodes of the child at `slot`
\* [st, ret]: the neighbour is read from a fetched page
NextLeft(st, page, slot, left) ==
    IF slot = -1
    THEN IF left = 0 THEN Ret(st, 0)
         ELSE IF db_fetch_page(st, left).ret = 0
         THEN Ret(Crash(db_fetch_page(st, left).st).st, 0)
         ELSE Ret(db_fetch_page(st, left).st,
                  GetKey(st, left, Cnt(st, left) - 1).ptr)
    ELSE IF slot = 0 THEN Ret(st, st.pages[page].ptr_left)
    ELSE Ret(st, GetKey(st, page, slot - 1).ptr)

NextLanchor(page, slot, lanchor) == IF slot = -1 THEN lanchor ELSE page

NextRight(st, page, slot, right) ==
    IF slot = Cnt(st, page) - 1
    THEN IF right = 0 THEN Ret(st, 0)
         ELSE IF db_fetch_page(st, right).ret = 0
         THEN Ret(Crash(db_fetch_page(st, right).st).st, 0)
         ELSE Ret(db_fetch_page(st, right).st, GetKey(st, right, 0).ptr)
    ELSE Ret(st, GetKey(st, page, slot + 1).ptr)

NextRanchor(st, page, slot, ranchor) ==
    IF slot = Cnt(st, page) - 1 THEN ranchor ELSE page

\* variant of the leaf case that takes the slot without comparing its key
EraseInLeafNoCompare(gs, page, key) ==
    IF gs.rc # HAM_SUCCESS
    THEN [st |-> db_set_error(gs.st, gs.rc), ret |-> 0, slot |-> 0]
    ELSE IF gs.slot # -1
    THEN [st |-> [gs.st EXCEPT
                    !.rid = GetKey(gs.st, page, gs.slot).ptr,
                    !.intflags = GetKey(gs.st, page, gs.slot).flags,
                    !.wrote = TRUE],
          ret |-> page, slot |-> gs.slot]
    ELSE [st |-> [db_set_error(gs.st, HAM_KEY_NOT_FOUND)
                    EXCEPT !.mergepage = 0],
          ret |-> 0, slot |-> gs.slot]

\* the leaf case: check if this entry really exists; [st, ret, slot]
EraseInLeaf(gs, page, key) ==
    IF gs.rc # HAM_SUCCESS
    THEN [st |-> db_set_error(gs.st, gs.rc), ret |-> 0, slot |-> 0]
    ELSE IF gs.slot # -1
    THEN IF GetKey(gs.st, page, gs.slot).k = key
         THEN [st |-> [gs.st EXCEPT
                        !.rid = GetKey(gs.st, page, gs.slot).ptr,
                        !.intflags = GetKey(gs.st, page, gs.slot).flags,
                        !.wrote = TRUE],
               ret |-> page, slot |-> gs.slot]
         ELSE [st |-> db_set_error(gs.st, HAM_KEY_NOT_FOUND), ret |-> 0,
               slot |-> gs.slot]
    ELSE [st |-> [db_set_error(gs.st, HAM_KEY_NOT_FOUND)
                    EXCEPT !.mergepage = 0],
          ret |-> 0, slot |-> gs.slot]

\* no need to rebalance in case of an error
RebalanceIfOk(rm, page, left, right, lanchor, ranchor, parent) ==
    IF rm.rc # HAM_SUCCESS \/ rm.st.nullp THEN Ret(rm.st, 0)
    ELSE IF rm.st.err = HAM_SUCCESS
    THEN my_rebalance(rm.st, page, left, right, lanchor, ranchor, parent)
    ELSE Ret(rm.st, 0)

\* ... and rebalance the tree, if necessary; sub is [st, ret, slot]
RemoveAndRebalance(sub, page, left, right, lanchor, ranchor, parent) ==
    RebalanceIfOk(
        IF sub.ret # 0
        THEN [my_remove_entry(sub.st, page,
                              IF sub.slot = -1 THEN 0 ELSE sub.slot)
                EXCEPT !.st = Moved(@, "remove", page, sub.ret, 0, parent,
                                    IF sub.slot = -1 THEN 0 ELSE sub.slot,
                                    sub.st.pages)]
        ELSE Ok(sub.st),
        page, left, right, lanchor, ranchor, parent)

RECURSIVE my_erase_recursive(_, _, _, _, _, _, _, _)

\* the internal case: descend into the child the traversal picks
EraseInChild(tr, page, left, right, lanchor, ranchor, key) ==
    LET nl == NextLeft(tr.st, page, tr.slot, left)
        nr == NextRight(nl.st, page, tr.slot, right)
    IN [my_erase_recursive(nr.st, tr.child, nl.ret, nr.ret,
                           NextLanchor(page, tr.slot, lanchor),
                           NextRanchor(tr.st, page, tr.slot, ranchor),
                           page, key)
            EXCEPT !.slot = tr.slot]

\* my_erase_recursive(page, left, right, lanchor, ranchor, parent,
\* scratchpad); key is scratchpad.key; [st, ret, slot]
my_erase_recursive(st, page, left, right, lanchor, ranchor, parent, key) ==
    \* page_get_owner(page), ham_page_get_btree_node(page) of a null page
    IF page = 0 \/ st.nullp
    THEN [st |-> Crash(st).st, ret |-> 0, slot |-> 0]
    ELSE IF Cnt(st, page) = 0
    THEN [st |-> db_set_error(st, HAM_KEY_NOT_FOUND), ret |-> 0, slot |-> 0]
    ELSE [slot |-> 0] @@
         RemoveAndRebalance(
            IF ~st.pages[page].leaf
            THEN EraseInChild(
                    btree_traverse_tree(
                        Visit(st, page, left, right, lanchor, ranchor,
                              parent),
                        page, key),
                    page, left, right, lanchor, ranchor, key)
            ELSE EraseInLeaf(
                    btree_get_slot(
                        Visit(st, page, left, right, lanchor, ranchor,
                              parent),
                        page, key),
                    page, key),
            page, left, right, lanchor, ranchor, parent)

\* variant of my_collapse_root that leaves the type of the new root
CollapseRootUntyped(st, newroot) ==
    [st EXCEPT !.root = newroot, !.bedirty = TRUE]

\* my_collapse_root(newroot, scratchpad)
my_collapse_root(st, newroot) ==
    [st EXCEPT !.root = newroot, !.bedirty = TRUE,
               !.pages[newroot].type = PAGE_TYPE_B_ROOT]

\* variant of EraseEnd that does not look at the database's error code
EraseEndIgnoresError(r, oldroot) ==
    IF r.ret # 0
    THEN [st |-> txn_free_page(my_collapse_root(r.st, r.ret), oldroot),
          status |-> HAM_SUCCESS]
    ELSE [st |-> r.st, status |-> HAM_SUCCESS]

\* btree_erase, after the recursion
EraseEnd(r, oldroot) ==
    IF r.st.err # HAM_SUCCESS THEN [st |-> r.st, status |-> r.st.err]
    ELSE IF r.ret # 0
    THEN [st |-> txn_free_page(my_collapse_root(r.st, r.ret), oldroot),
          status |-> HAM_SUCCESS]
    ELSE [st |-> r.st, status |-> HAM_SUCCESS]

\* btree_erase(be, key, rid, intflags, flags): [st, status]
btree_erase(st, key) ==
    IF st.root = 0
    THEN [st |-> db_set_error(st, HAM_KEY_NOT_FOUND),
          status |-> HAM_KEY_NOT_FOUND]
    ELSE EraseEnd(my_erase_recursive(
                    db_set_error(db_fetch_page(st, st.root).st, HAM_SUCCESS),
                    db_fetch_page(st, st.root).ret, 0, 0, 0, 0, 0, key),
                  st.root)

(***************************************************************************)
(* Lookup: the descent of btree_traverse_tree down to btree_get_slot.      *)
(***************************************************************************)
RECURSIVE FindLeaf(_, _, _, _)
\* the leaf the descent for key ends in (0: the descent left the tree)
FindLeaf(pg, p, key, fuel) ==
    IF p = 0 \/ fuel = 0 THEN 0
    ELSE IF ~pg[p].live THEN 0
    ELSE IF pg[p].leaf THEN p
    ELSE LET slot == SlotOf(pg[p], key)
         IN FindLeaf(pg,
                     IF slot = -1 THEN pg[p].ptr_left
                     ELSE pg[p].slots[slot + 1].ptr,
                     key, fuel - 1)

NotFound == [found |-> FALSE, page |-> 0, slot |-> 0, rid |-> 0, flags |-> {}]

\* find(key): the slot of the leaf that holds key, with its record id
Find(pg, rt, key) ==
    LET p == FindLeaf(pg, rt, key, MaxPages)
    IN IF p = 0 THEN NotFound
       ELSE LET slot == SlotOf(pg[p], key)
            IN IF slot # -1 /\ pg[p].slots[slot + 1].k = key
               THEN [found |-> TRUE, page |-> p, slot |-> slot,
                     rid |-> pg[p].slots[slot + 1].ptr,
                     flags |-> pg[p].slots[slot + 1].flags]
               ELSE NotFound

(***************************************************************************)
(* Actions.                                                                *)
(***************************************************************************)
\* the keys worth a call: up to one beyond the largest key of any slot
Keys ==
    LET ks == {pages[p].slots[i].k : p \in PageIds, i \in 1..maxkeys}
    IN 0..((CHOOSE k \in ks : \A j \in ks : j <= k) + 1)

\* what a btree_erase call was given, returned and did
CallOf(key, r) ==
    [key |-> key, status |-> r.status, rid |-> r.st.rid,
     intflags |-> r.st.intflags, wrote |-> r.st.wrote,
     failed |-> IF r.st.failed THEN r.st.fkind ELSE "none",
     editc |-> r.st.editc, badcur |-> r.st.badcur,
     oob |-> r.st.oob, nullp |-> r.st.nullp, deadblob |-> r.st.deadblob,
     freed |-> r.st.freed, merges |-> r.st.merges, shifts |-> r.st.shifts,
     unc |-> r.st.unc, copyfail |-> r.st.copyfail,
     unrolled |-> r.st.unrolled, bedirty |-> r.st.bedirty,
     seq |-> <<>>, cop |-> NoCursorCall,
     visits |-> r.st.visits, moves |-> r.st.moves]

\* the program has stopped: a primitive failed, or the call crashed
Halted == last.failed # "none" \/ last.nullp \/ last.oob

\* the database after the call, and what the call returned
Returned(key, r) ==
    /\ pages' = r.st.pages
    /\ root' = r.st.root
    /\ blobs' = r.st.blobs
    /\ nextblob' = r.st.nextblob
    /\ cursors' = r.st.cursors
    /\ last' = CallOf(key, r)

EraseWith(key, fault) ==
    /\ ~Halted
    /\ nerase < MaxErases
    /\ Returned(key, btree_erase(Begin(pages, root, blobs, nextblob, cursors,
                                       maxkeys, fault), key))
    /\ nerase' = nerase + 1
    /\ UNCHANGED <<ncursor, maxkeys, pageobj>>

\* ham_erase: btree_erase(key) with every primitive succeeding
Erase == \E key \in Keys : EraseWith(key, NoFault)

\* the pages and the cursors after an operation of a cursor
Positioned(st, call) ==
    /\ pages' = st.pages
    /\ cursors' = st.cursors
    /\ last' = [last EXCEPT !.cop = call]
    /\ ncursor' = ncursor + 1
    /\ UNCHANGED <<root, blobs, nextblob, nerase, maxkeys, pageobj>>

\* the state the operations of a cursor work on
Now == Begin(pages, root, blobs, nextblob, cursors, maxkeys, NoFault)

\* variant of couple that forgets the slot of the key
CoupleToFirstSlot(st, c) ==
    IF st.cursors[c].state = "uncoupled"
            /\ Find(st.pages, st.root, st.cursors[c].key).found
    THEN couple_to_page(st, c,
                        Find(st.pages, st.root, st.cursors[c].key).page, 0)
    ELSE st

\* BtreeCursor::couple: an uncoupled cursor is coupled again, by a lookup
\* of the key it has kept
couple(st, c) ==
    IF st.cursors[c].state = "uncoupled"
            /\ Find(st.pages, st.root, st.cursors[c].key).found
    THEN couple_to_page(st, c,
                        Find(st.pages, st.root, st.cursors[c].key).page,
                        Find(st.pages, st.root, st.cursors[c].key).slot)
    ELSE st

\* move_next of a coupled cursor: the next slot of the page, or the first
\* slot of the right sibling; [st, rc, key]
MoveCoupled(st, c) ==
    LET cur == st.cursors[c]
    IN IF cur.state # "coupled"
       THEN [st |-> st, rc |-> HAM_KEY_NOT_FOUND, key |-> 0]
       ELSE IF cur.slot + 1 < Cnt(st, cur.page)
       THEN [st |-> couple_to_page(st, c, cur.page, cur.slot + 1),
             rc |-> HAM_SUCCESS,
             key |-> GetKey(st, cur.page, cur.slot + 1).k]
       ELSE IF st.pages[cur.page].right = 0
       THEN [st |-> st, rc |-> HAM_KEY_NOT_FOUND, key |-> 0]
       ELSE [st |-> couple_to_page(st, c, st.pages[cur.page].right, 0),
             rc |-> HAM_SUCCESS,
             key |-> GetKey(st, st.pages[cur.page].right, 0).k]

\* BtreeCursor::move with NEXT: an uncoupled cursor is coupled first
move_next(st, c) == MoveCoupled(couple(st, c), c)

\* the cache evicts a page: it uncouples the cursors of the page and
\* writes the page
Evicted(st, p) ==
    [uncouple_all_cursors(st, p, 0) EXCEPT !.pages[p].dirty = FALSE]

\* the cursor finds key and is coupled to its slot
CursorFind ==
    \E c \in CursorIds, key \in Keys :
        LET f == Find(pages, root, key)
        IN /\ ~Halted
           /\ ncursor < MaxCursorOps
           /\ f.found
           /\ Positioned(couple_to_page(Now, c, f.page, f.slot),
                         CursorCall("find", c, f.page, f.slot, key))

\* btree_erase with one primitive made to fail at one of its calls
EraseFault ==
    \E key \in Keys, kind \in FaultKinds, n \in 1..MaxFaultCall :
        EraseWith(key, [kind |-> kind, n |-> n])

\* btree_erase with db_uncouple_all_cursors failing at one of its calls
EraseUncoupleFault ==
    \E key \in Keys, n \in 1..MaxFaultCall :
        EraseWith(key, [kind |-> "uncouple", n |-> n])

Init == InitWith(Shapes)
Next == Erase
Spec == Init /\ [][Next]_vars

\* erases under cursors, also with an uncoupling that fails
NextCursor == Erase \/ CursorFind \/ EraseUncoupleFault
SpecCursor == InitWith(SmallShapes) /\ [][NextCursor]_vars

\* erases with a failing primitive
NextFault == Erase \/ EraseFault
SpecFault == InitWith(Shapes) /\ [][NextFault]_vars

\* btree_erase with db_fetch_page failing at one of its calls
EraseFetchFault ==
    \E key \in Keys, n \in 1..MaxFetchCall :
        EraseWith(key, [kind |-> "fetch", n |-> n])

\* erases with a page the device fails to read
NextFetch == Erase \/ EraseFetchFault
SpecFetch == InitWith(Shapes) /\ [][NextFetch]_vars

\* the database after the call, with the call added to the recorded ones
Recorded(key, r) ==
    /\ pages' = r.st.pages
    /\ root' = r.st.root
    /\ blobs' = r.st.blobs
    /\ nextblob' = r.st.nextblob
    /\ cursors' = r.st.cursors
    /\ last' = [CallOf(key, r) EXCEPT !.seq = Append(last.seq, key)]

\* ham_erase, one call of a sequence of calls
EraseInSequence ==
    \E key \in Keys :
        /\ ~Halted
        /\ nerase < MaxScenarioErases
        /\ Recorded(key, btree_erase(Begin(pages, root, blobs, nextblob,
                                           cursors, maxkeys, NoFault), key))
        /\ nerase' = nerase + 1
        /\ UNCHANGED <<ncursor, maxkeys, pageobj>>

\* sequences of erases from the tree of the keys 1..8 in two leaves
SpecSequence ==
    InitWith({Shape(4, FALSE, << <<4, 4>> >>)}) /\ [][EraseInSequence]_vars

\* couple_to_page(page, index) of a cursor, with a key slot of a leaf
CoupleToPage ==
    \E c \in DOMAIN cursors, p \in PageIds, slot \in 0..(maxkeys - 1) :
        /\ ncursor < MaxListOps
        /\ pages[p].live /\ pages[p].leaf /\ slot < pages[p].count
        /\ Positioned(couple_to_page(Now, c, p, slot),
                      CursorCall("couple_to_page", c, p, slot, 0))

\* uncouple_from_page of a cursor in any state
UncoupleFromPage ==
    \E c \in DOMAIN cursors :
        /\ ncursor < MaxListOps
        /\ Positioned(uncouple_from_page(Now, c),
                      CursorCall("uncouple_from_page", c, 0, 0, 0))

\* set_to_nil or close of a cursor in any state
SetToNil ==
    \E c \in DOMAIN cursors :
        /\ ncursor < MaxListOps
        /\ Positioned(set_to_nil(Now, c),
                      CursorCall("set_to_nil", c, 0, 0, 0))

\* a new cursor is made a clone of another one
Clone ==
    \E c \in DOMAIN cursors, other \in DOMAIN cursors :
        /\ ncursor < MaxListOps
        /\ c # other
        /\ cursors[c].state = "nil"
        /\ Positioned(clone(Now, c, other),
                      CursorCall("clone", c, 0, 0, 0))

\* uncouple_all_cursors(page, start) of a page in memory
UncoupleAll ==
    \E p \in PageIds, start \in 0..(maxkeys - 1) :
        /\ ncursor < MaxListOps
        /\ pages[p].live
        /\ Positioned(uncouple_all_cursors(Now, p, start),
                      CursorCall("uncouple_all_cursors", NoCursor, p, start,
                                 0))

\* the operations that change the cursor lists of the pages
ListCursorIds == {"c1", "c2", "c3"}
NextList ==
    CoupleToPage \/ UncoupleFromPage \/ SetToNil \/ Clone \/ UncoupleAll
SpecList ==
    InitCursors({Shape(4, FALSE, << <<2, 3, 2>> >>)}, ListCursorIds)
        /\ [][NextList]_vars

\* the next access to an uncoupled cursor couples it again
CursorCouple ==
    \E c \in DOMAIN cursors :
        /\ ncursor < MaxPositionOps
        /\ cursors[c].state = "uncoupled"
        /\ Positioned(couple(Now, c),
                      CursorCall("couple", c, 0, 0, cursors[c].key))

\* move(NEXT) of a cursor; the record keeps the page that was evicted just
\* before the call, if the cursor is uncoupled
CursorMoveNext ==
    \E c \in DOMAIN cursors :
        /\ ncursor < MaxPositionOps
        /\ Positioned(move_next(Now, c).st,
                      [CursorCall("move_next", c,
                                  IF last.cop.op = "evict"
                                        /\ cursors[c].state = "uncoupled"
                                  THEN last.cop.page ELSE 0,
                                  0, move_next(Now, c).key)
                        EXCEPT !.status = move_next(Now, c).rc])

\* the cache evicts a page of the tree
Evict ==
    \E p \in PageIds :
        /\ ncursor < MaxPositionOps
        /\ pages[p].live
        /\ Positioned(Evicted(Now, p),
                      CursorCall("evict", NoCursor, p, 0, 0))

\* a cursor under erases and evictions
NextPosition ==
    Erase \/ CursorFind \/ CursorCouple \/ CursorMoveNext \/ Evict
SpecPosition == InitWith(SmallShapes) /\ [][NextPosition]_vars

\* the values the crc32 field of a page read from the device can hold: no
\* hash, or the hash an earlier flush has stamped
StoredCrcs(size, address, payload) ==
    {NoCrc,
     MurmurHash3_x86_32(payload, size - (PPageHeaderSize - 1), address.lo)}

\* a step of the Page object; the btree is left alone
PageStep(po) ==
    /\ ~pageobj.crashed
    /\ pageobj.nops < MaxPageOps
    /\ pageobj' = po
    /\ UNCHANGED <<pages, root, blobs, nextblob, cursors, last, nerase,
                   ncursor, maxkeys>>

\* the shadow descriptors: the heap descriptors that are not the primary
Shadows(po) == {d \in 1..MaxDescs : po.descs[d].live /\ d # po.datap}

\* the page manager allocates a new page
PageAlloc ==
    \E address \in Addresses, payload \in Payloads,
       zeroes \in BOOLEAN, noheader \in BOOLEAN :
        /\ pageobj.descs[pageobj.datap].raw_data = 0
        /\ PageStep(PageCall(
                [alloc(pageobj, address, payload, NoCrc, zeroes)
                    EXCEPT !.descs[pageobj.datap].is_without_header = noheader,
                           !.descs[pageobj.datap].is_dirty = TRUE],
                "alloc", 0, 0))

\* the page manager reads a page from the device
PageFetch ==
    \E address \in Addresses, payload \in Payloads, noheader \in BOOLEAN :
        \E crc32 \in StoredCrcs(pageobj.descs[pageobj.datap].size,
                                address, payload) :
            /\ pageobj.descs[pageobj.datap].raw_data = 0
            /\ PageStep(PageCall(
                    [fetch(pageobj, address, payload, crc32) EXCEPT
                        !.descs[pageobj.datap].is_without_header = noheader],
                    "fetch", 0, 0))

\* a writer changes the page, or marks it dirty as it is
PageWrite ==
    \E payload \in Payloads :
        /\ pageobj.descs[pageobj.datap].raw_data # 0
        /\ PageStep(PageCall(Written(pageobj, payload), "write", 0, 0))

\* Page::flush of the primary descriptor or of a shadow
PageFlush ==
    \E d \in {pageobj.datap} \cup Shadows(pageobj) :
        PageStep(PageCall(flush(pageobj, d, TRUE), "flush", d, 0))

\* Page::flush on a device whose write can fail
PageFlushFault ==
    \E d \in {pageobj.datap} \cup Shadows(pageobj), ok \in BOOLEAN :
        PageStep(PageCall(flush(pageobj, d, ok), "flush", d, 0))

\* Page::deep_copy_data
PageDeepCopy ==
    /\ FreeDesc(pageobj) # 0
    /\ PageStep(PageCall(deep_copy_data(pageobj), "deep_copy_data", 0,
                         deep_copy_data(pageobj).ret))

\* the holder of a shadow discards it
PageDiscard ==
    \E d \in Shadows(pageobj) :
        PageStep(PageCall(DeleteDesc(pageobj, d), "discard", d, pageobj.ret))

\* the Page object under its callers
NextPage ==
    \/ PageAlloc \/ PageFetch \/ PageWrite
    \/ PageFlush \/ PageDeepCopy \/ PageDiscard

InitPage ==
    /\ InitTree({Shape(4, FALSE, <<>>)}, {})
    /\ pageobj \in {NewPage(crc, size) : crc \in BOOLEAN, size \in PageSizes}

\* trees of height 2 whose middle leaf lies between two leaves with more
\* than minkeys keys
TieShapes ==
    { Shape(4, FALSE, << <<4, 2, 3>> >>), Shape(4, FALSE, << <<3, 2, 4>> >>),
      Shape(4, FALSE, << <<3, 2, 3>> >>), Shape(4, TRUE, << <<4, 2, 3, 2>> >>) }

\* erases from the trees of TieShapes
SpecTie == InitWith(TieShapes) /\ [][Next]_vars

SpecPage == InitPage /\ [][NextPage]_vars

\* the Page object on a device whose writes can fail
NextPageFault ==
    \/ PageAlloc \/ PageFetch \/ PageWrite
    \/ PageFlushFault \/ PageDeepCopy \/ PageDiscard
SpecPageFault == InitPage /\ [][NextPageFault]_vars

\* erases that also start from a btree without a root page
SpecNoRoot == InitWith(Shapes \cup {Shape(4, FALSE, <<>>)}) /\ [][Next]_vars

(***************************************************************************)
(* The tree as a whole.                                                    *)
(***************************************************************************)
Live == {p \in PageIds : pages[p].live}

\* the child pointers of a node: p_{-1} (ptr_left), p_0 .. p_{n-1}
ChildAt(pg, p, i) == IF i = -1 THEN pg[p].ptr_left ELSE pg[p].slots[i + 1].ptr
Children(pg, p) ==
    IF pg[p].leaf THEN {}
    ELSE {ChildAt(pg, p, i) : i \in -1..(pg[p].count - 1)}

RECURSIVE SubtreeKeys(_, _, _)
\* every key stored in the nodes of the subtree of page p
SubtreeKeys(pg, p, fuel) ==
    IF p = 0 \/ fuel = 0 THEN {}
    ELSE {pg[p].slots[i].k : i \in 1..pg[p].count}
            \cup UNION {SubtreeKeys(pg, c, fuel - 1) : c \in Children(pg, p)}

\* the key slots in use: the slots below count of the live pages
LiveSlots == {ps \in PageIds \X (0..(maxkeys - 1)) :
                pages[ps[1]].live /\ ps[2] < pages[ps[1]].count}
KeyAt(ps) == pages[ps[1]].slots[ps[2] + 1]

C2_NodeCounts ==
    \A p \in Live :
        /\ pages[p].count >= 0 /\ pages[p].count <= maxkeys
        /\ p # root => pages[p].count >= btree_get_minkeys(maxkeys)
        /\ (p = root /\ ~pages[p].leaf) => pages[p].count >= 1

\* an erase has rebalanced an under-full page
C2_Witness ==
    /\ last.status = HAM_SUCCESS
    /\ last.merges + last.shifts > 0
    /\ Cardinality(Live) > 1

(***************************************************************************)
(* C3: the sibling pointers of the live pages form a consistent doubly     *)
(* linked list, and no live page points to a freed page.                   *)
(***************************************************************************)
C3_SiblingList ==
    \A p \in Live :
        /\ pages[p].right # 0 =>
              pages[p].right \in Live /\ pages[pages[p].right].left = p
        /\ pages[p].left # 0 =>
              pages[p].left \in Live /\ pages[pages[p].left].right = p

\* a merge has freed a page that had a neighbour on its far side
C3_Witness ==
    /\ last.merges > 0
    /\ \E p \in last.freed : pages[p].leaf /\ pages[p].right # 0
                             /\ pages[p].left # 0

(***************************************************************************)
(* C4 as stated: every key in the subtree of p_i is > k_i and <= k_{i+1}.  *)
(* An erase that starts in a tree where this holds ends in one where it    *)
(* holds.                                                                  *)
(***************************************************************************)
SeparatorsAsStated ==
    \A p \in Live : ~pages[p].leaf =>
        \A i \in 0..(pages[p].count - 1) :
            \A k \in SubtreeKeys(pages, ChildAt(pages, p, i), MaxPages) :
                /\ k > pages[p].slots[i + 1].k
                /\ i + 1 < pages[p].count => k <= pages[p].slots[i + 2].k

C4_AsStated == [][SeparatorsAsStated => SeparatorsAsStated']_vars

(***************************************************************************)
(* C4 as amended: every key in the subtree of p_i is >= k_i and < k_{i+1}, *)
(* and every key in the subtree of p_{-1} is < k_0.                        *)
(***************************************************************************)
C4_Partition ==
    \A p \in Live : ~pages[p].leaf =>
        \A i \in -1..(pages[p].count - 1) :
            \A k \in SubtreeKeys(pages, ChildAt(pages, p, i), MaxPages) :
                /\ i >= 0 => k >= pages[p].slots[i + 1].k
                /\ i + 1 < pages[p].count => k < pages[p].slots[i + 2].k

\* a shift has rewritten a separator of an internal node
C4_Witness ==
    /\ last.shifts > 0
    /\ \E p \in Live : ~pages[p].leaf /\ pages[p].dirty

(***************************************************************************)
(* C5: no cursor is coupled to a page that has been freed, and no coupled  *)
(* cursor holds a slot outside [0, count) of its page: neither after a     *)
(* btree_erase call nor at any write of a count or free of a page in it.   *)
(***************************************************************************)
C5_CursorsValid ==
    /\ ~last.badcur
    /\ \A c \in DOMAIN cursors :
            cursors[c].state = "coupled" =>
                /\ pages[cursors[c].page].live
                /\ cursors[c].slot >= 0
                /\ cursors[c].slot < pages[cursors[c].page].count

\* a page was freed that a cursor had been coupled to when the call began
C5_Witness ==
    /\ last.freed \cap last.unc # {}
    /\ \E c \in DOMAIN cursors : cursors[c].state = "uncoupled"

(***************************************************************************)
(* C6: no write to the slots or the count of a page happens while a cursor *)
(* is coupled to the page.                                                 *)
(***************************************************************************)
C6_UncoupledBeforeEdit == ~last.editc

\* an erase removed a key from a page a cursor was coupled to
C6_Witness ==
    /\ last.unc # {}
    /\ last.wrote
    /\ last.status = HAM_SUCCESS
    /\ \E p \in last.unc : pages[p].dirty

(***************************************************************************)
(* C7: every live key slot whose EXTENDED flag is set references a blob id *)
(* that is non-zero and allocated in the blob store.                       *)
(***************************************************************************)
ExtendedSlots == {ps \in LiveSlots : IsExt(KeyAt(ps))}

C7_ExtendedBlobsAllocated ==
    \A ps \in ExtendedSlots :
        key_get_extended_rid(KeyAt(ps)) # 0
            /\ key_get_extended_rid(KeyAt(ps)) \in blobs

C9_CopyRollsBack == last.copyfail => ~last.unrolled

(***************************************************************************)
(* C10: btree_erase never returns success after a primitive                *)
(* (db_uncouple_all_cursors, blob_free, blob_read, blob_allocate,          *)
(* btree_get_slot) has failed.                                             *)
(***************************************************************************)
C10_FailurePropagates == last.failed # "none" => last.status # HAM_SUCCESS
(***************************************************************************)
(* C11: when db_fetch_page fails during btree_erase, btree_erase returns   *)
(* the status of the device, and the page that is missing is not used.     *)
(***************************************************************************)
C11_FetchErrorReturned ==
    last.failed = "fetch" =>
        /\ last.status = ErrOf("fetch")
        /\ ~last.nullp

(***************************************************************************)
(* C12: btree_erase returns KEY_NOT_FOUND when the btree has no root page  *)
(* (root address 0) and when the root node has count 0.                    *)
(***************************************************************************)
C12_EmptyNotFound ==
    [][ (nerase' = nerase + 1 /\ (root = 0 \/ pages[root].count = 0)) =>
            last'.status = HAM_KEY_NOT_FOUND
      ]_vars

\* an erase was called on a btree without a root page
C12_Witness ==
    /\ root = 0
    /\ nerase > 0
    /\ last.status = HAM_KEY_NOT_FOUND

(***************************************************************************)
(* C13: erasing the only key of a leaf root leaves the tree empty: the     *)
(* root pointer is unchanged, the root leaf has count 0, no page is freed  *)
(* and the root is not collapsed, no key is found any more, and an erase   *)
(* from the empty root leaf returns KEY_NOT_FOUND and changes nothing.     *)
(***************************************************************************)
C13_LastKeyOfLeafRoot ==
    [][ nerase' = nerase + 1 =>
          /\ (/\ pages[root].leaf /\ pages[root].count = 1
              /\ Find(pages, root, last'.key).found) =>
                /\ last'.status = HAM_SUCCESS
                /\ root' = root
                /\ pages'[root].live /\ pages'[root].leaf
                /\ pages'[root].count = 0
                /\ pages'[root].type = PAGE_TYPE_B_ROOT
                /\ last'.freed = {} /\ last'.merges = 0 /\ last'.shifts = 0
                /\ \A k \in Keys : ~Find(pages', root', k).found
          /\ (pages[root].leaf /\ pages[root].count = 0) =>
                /\ last'.status = HAM_KEY_NOT_FOUND
                /\ pages' = pages /\ root' = root
                /\ \A k \in Keys : ~Find(pages', root', k).found
      ]_vars

\* the only key of a leaf root was erased, and an erase followed
C13_Witness ==
    /\ pages[root].leaf /\ pages[root].count = 0
    /\ pages[root].slots[1].k # 0
    /\ nerase = 2
    /\ last.status = HAM_KEY_NOT_FOUND

\* the height of the tree below page p: the pages on its leftmost path
RECURSIVE Height(_, _, _)
Height(pg, p, fuel) ==
    IF p = 0 \/ fuel = 0 THEN 0
    ELSE IF pg[p].leaf THEN 1
    ELSE 1 + Height(pg, pg[p].ptr_left, fuel - 1)

(***************************************************************************)
(* C14: when an erase merges the two children of a root that holds one     *)
(* separator, it ends with the root pointer on the surviving child (the    *)
(* old root's ptr_left), that page typed B_ROOT, the backend dirty, the    *)
(* old root page freed, and the tree one level lower.                      *)
(***************************************************************************)
C14_RootCollapse ==
    [][ (/\ nerase' = nerase + 1
         /\ ~pages[root].leaf /\ pages[root].count = 1
         /\ last'.freed \cap Children(pages, root) # {}) =>
            /\ last'.status = HAM_SUCCESS
            /\ root' = pages[root].ptr_left
            /\ pages'[root'].live
            /\ pages'[root'].type = PAGE_TYPE_B_ROOT
            /\ last'.bedirty
            /\ root \in last'.freed /\ ~pages'[root].live
            /\ Height(pages', root', MaxPages)
                    = Height(pages, root, MaxPages) - 1
      ]_vars

\* the root of a tree of height 3 was collapsed into a merged internal node
C14_Witness ==
    /\ last.bedirty /\ last.merges = 2
    /\ ~pages[root].leaf
    /\ pages[root].type = PAGE_TYPE_B_ROOT

\* the keys of the slots in use of page p, in slot order
PageKeys(pg, p) == [i \in 1..pg[p].count |-> pg[p].slots[i].k]

\* the tree is a root with the separators seps over the leaves with the
\* keys of `leaves`, in this order
RootOverLeaves(pg, rt, seps, leaves) ==
    /\ rt # 0
    /\ pg[rt].live /\ ~pg[rt].leaf
    /\ PageKeys(pg, rt) = seps
    /\ Len(leaves) = Len(seps) + 1
    /\ \A i \in 1..Len(leaves) :
            LET c == ChildAt(pg, rt, i - 2)
            IN /\ c # 0
               /\ pg[c].live /\ pg[c].leaf
               /\ PageKeys(pg, c) = leaves[i]

\* C15 as stated: the separator of the root is updated to 6
C15_AsStated ==
    [][ (/\ nerase' = nerase + 1 /\ last'.key = 5 /\ maxkeys = 4
         /\ RootOverLeaves(pages, root, <<5>>,
                           << <<1, 2, 3, 4>>, <<5, 6, 7, 8>> >>)) =>
            RootOverLeaves(pages', root', <<6>>,
                           << <<1, 2, 3, 4>>, <<6, 7, 8>> >>)
      ]_vars

(***************************************************************************)
(* C15: with maxkeys = 4 and the keys 1..8 in the leaves [1,2,3,4] and     *)
(* [5,6,7,8] under one root, btree_erase(5) leaves the leaves [1,2,3,4]    *)
(* and [6,7,8], and the separator of the root stays 5.                     *)
(***************************************************************************)
C15_SeparatorStays ==
    [][ (/\ nerase' = nerase + 1 /\ last'.key = 5 /\ maxkeys = 4
         /\ RootOverLeaves(pages, root, <<5>>,
                           << <<1, 2, 3, 4>>, <<5, 6, 7, 8>> >>)) =>
            /\ last'.status = HAM_SUCCESS
            /\ RootOverLeaves(pages', root', <<5>>,
                              << <<1, 2, 3, 4>>, <<6, 7, 8>> >>)
      ]_vars

\* 5 was erased from the tree of the keys 1..8
C15_Witness ==
    /\ nerase = 1 /\ last.key = 5 /\ last.status = HAM_SUCCESS
    /\ RootOverLeaves(pages, root, <<5>>, << <<1, 2, 3, 4>>, <<6, 7, 8>> >>)

\* C16 as stated: the erases end with a single leaf root
C16_AsStated ==
    last.seq = <<4, 3, 2, 1>> =>
        /\ pages[root].live /\ pages[root].leaf
        /\ PageKeys(pages, root) = <<5, 6, 7, 8>>

(***************************************************************************)
(* C16: with maxkeys = 4 and the keys 1..8 in two leaves under one root,   *)
(* erasing 4, 3, 2, 1 in this order proceeds by two shifts, without a      *)
(* merge, and ends with the root holding the separator 7 over the leaves   *)
(* [5,6] and [7,8].                                                        *)
(***************************************************************************)
C16_ShiftsNotMerges ==
    /\ last.seq = <<4>> =>
            /\ last.merges = 0 /\ last.shifts = 0
            /\ RootOverLeaves(pages, root, <<5>>,
                              << <<1, 2, 3>>, <<5, 6, 7, 8>> >>)
    /\ last.seq = <<4, 3>> =>
            /\ last.merges = 0 /\ last.shifts = 0
            /\ RootOverLeaves(pages, root, <<5>>,
                              << <<1, 2>>, <<5, 6, 7, 8>> >>)
    /\ last.seq = <<4, 3, 2>> =>
            /\ last.merges = 0 /\ last.shifts = 1
            /\ RootOverLeaves(pages, root, <<6>>,
                              << <<1, 5>>, <<6, 7, 8>> >>)
    /\ last.seq = <<4, 3, 2, 1>> =>
            /\ last.status = HAM_SUCCESS
            /\ last.merges = 0 /\ last.shifts = 1
            /\ RootOverLeaves(pages, root, <<7>>, << <<5, 6>>, <<7, 8>> >>)

\* 4, 3, 2 and 1 were erased in this order
C16_Witness ==
    /\ last.seq = <<4, 3, 2, 1>>
    /\ last.status = HAM_SUCCESS
    /\ nerase = 4

RECURSIVE ListFrom(_, _, _)
\* the cursors of a cursor list, from cursor c on
ListFrom(cu, c, fuel) ==
    IF c = NoCursor \/ fuel = 0 THEN <<>>
    ELSE <<c>> \o ListFrom(cu, cu[c].next, fuel - 1)

\* the cursor list of page p
CursorList(p) ==
    ListFrom(cursors, pages[p].cursor_list, Cardinality(DOMAIN cursors) + 1)

(***************************************************************************)
(* C17: a cursor is on the cursor list of page P if and only if it is      *)
(* coupled and its coupled page is P; a nil or uncoupled cursor is on no   *)
(* list and no cursor is on two lists (or twice on one), after any         *)
(* sequence of couple_to_page, uncouple_from_page, set_to_nil, clone and   *)
(* uncouple_all_cursors.                                                   *)
(***************************************************************************)
C17_ListMembership ==
    \A p \in PageIds :
        /\ \A c \in DOMAIN cursors :
                (\E i \in 1..Len(CursorList(p)) : CursorList(p)[i] = c)
                    <=> (cursors[c].state = "coupled" /\ cursors[c].page = p)
        /\ \A i, j \in 1..Len(CursorList(p)) :
                CursorList(p)[i] = CursorList(p)[j] => i = j

\* a cursor has left a list of three cursors from its middle
C17_Witness ==
    \E p \in PageIds :
        /\ Len(CursorList(p)) = 2
        /\ last.cop.op \in {"uncouple_from_page", "set_to_nil"}
        /\ ncursor = 4
        /\ \A c \in DOMAIN cursors :
                cursors[c].state = "coupled" \/ c = last.cop.c

\* cursor c is on the cursor list of page p
OnList(pg, cu, c, p) ==
    \E i \in 1..Cardinality(DOMAIN cu) :
        /\ i <= Len(ListFrom(cu, pg[p].cursor_list, Cardinality(DOMAIN cu)))
        /\ ListFrom(cu, pg[p].cursor_list, Cardinality(DOMAIN cu))[i] = c

(***************************************************************************)
(* C20: uncouple_all_cursors(page, start) leaves every cursor that was     *)
(* coupled to page at a slot >= start uncoupled, with a copy of its key    *)
(* and off the page's list, and every cursor coupled at a slot < start     *)
(* coupled to the same slot; with start = 0 the page's list is empty.      *)
(***************************************************************************)
C20_UncoupleAllFromStart ==
    [][ (ncursor' = ncursor + 1 /\ last'.cop.op = "uncouple_all_cursors") =>
          /\ \A c \in DOMAIN cursors :
                IF cursors[c].state = "coupled"
                        /\ cursors[c].page = last'.cop.page
                THEN IF cursors[c].slot >= last'.cop.slot
                     THEN /\ cursors'[c].state = "uncoupled"
                          /\ cursors'[c].key =
                                KeyAt(<<cursors[c].page, cursors[c].slot>>).k
                          /\ ~OnList(pages', cursors', c, last'.cop.page)
                     ELSE /\ cursors'[c].state = "coupled"
                          /\ cursors'[c].page = cursors[c].page
                          /\ cursors'[c].slot = cursors[c].slot
                          /\ OnList(pages', cursors', c, last'.cop.page)
                ELSE cursors'[c] = cursors[c]
          /\ last'.cop.slot = 0 =>
                pages'[last'.cop.page].cursor_list = NoCursor
      ]_vars

\* uncouple_all_cursors with a start > 0 has uncoupled one cursor of the
\* page and left another one coupled
C20_Witness ==
    /\ last.cop.op = "uncouple_all_cursors"
    /\ last.cop.slot > 0
    /\ \E c \in DOMAIN cursors :
            /\ cursors[c].state = "coupled"
            /\ cursors[c].page = last.cop.page
    /\ \E c \in DOMAIN cursors :
            /\ cursors[c].state = "uncoupled"
            /\ Find(pages, root, cursors[c].key).page = last.cop.page
            /\ Find(pages, root, cursors[c].key).slot >= last.cop.slot

\* the key of the slot cursor c is coupled to
CursorKey(pg, cu, c) == pg[cu[c].page].slots[cu[c].slot + 1].k

\* cursor c is coupled to a slot in use of a leaf in memory
CoupledInLeaf(pg, cu, c) ==
    /\ cu[c].state = "coupled"
    /\ cu[c].page # 0
    /\ pg[cu[c].page].live /\ pg[cu[c].page].leaf
    /\ cu[c].slot >= 0 /\ cu[c].slot < pg[cu[c].page].count

(***************************************************************************)
(* C18: a cursor coupled to key k stays positioned on k across an erase of *)
(* another key: the erase edits no page the cursor is coupled to, the      *)
(* cursor either stays coupled to a slot that holds k or is uncoupled with *)
(* a copy of k, and the next access to an uncoupled cursor couples it to   *)
(* the slot that holds k now.                                              *)
(***************************************************************************)
C18_CursorKeepsKey ==
    [][ /\ nerase' = nerase + 1 =>
            \A c \in DOMAIN cursors :
                (/\ CoupledInLeaf(pages, cursors, c)
                 /\ last'.key # CursorKey(pages, cursors, c)) =>
                    /\ ~last'.editc
                    /\ Find(pages', root', CursorKey(pages, cursors, c)).found
                    /\ \/ /\ CoupledInLeaf(pages', cursors', c)
                          /\ CursorKey(pages', cursors', c)
                                = CursorKey(pages, cursors, c)
                       \/ /\ cursors'[c].state = "uncoupled"
                          /\ cursors'[c].key = CursorKey(pages, cursors, c)
        /\ (ncursor' = ncursor + 1 /\ last'.cop.op = "couple") =>
            \A c \in DOMAIN cursors :
                (c = last'.cop.c /\ Find(pages, root, cursors[c].key).found)
                    => /\ CoupledInLeaf(pages', cursors', c)
                       /\ CursorKey(pages', cursors', c) = cursors[c].key
      ]_vars

\* a cursor was coupled again to its key, which an erase of another key
\* had moved to another slot or page
C18_Witness ==
    /\ last.cop.op = "couple"
    /\ last.unc # {} /\ last.status = HAM_SUCCESS
    /\ CoupledInLeaf(pages, cursors, last.cop.c)
    /\ CursorKey(pages, cursors, last.cop.c) = last.cop.key
    /\ last.merges + last.shifts > 0

\* the keys of the tree that follow key k
Followers(pg, r, k) == {k2 \in Keys : k2 > k /\ Find(pg, r, k2).found}

\* the smallest key of the tree that follows key k
Successor(pg, r, k) ==
    CHOOSE k2 \in Followers(pg, r, k) :
        \A k3 \in Followers(pg, r, k) : k2 <= k3

(***************************************************************************)
(* C19: a coupled cursor survives the eviction of its page: the eviction   *)
(* leaves it uncoupled with a copy of its key, and a move(NEXT) that       *)
(* follows couples it by a lookup of that key and returns the successor of *)
(* the key (KEY_NOT_FOUND if the key was the last one of the tree).        *)
(***************************************************************************)
C19_SurvivesEviction ==
    [][ /\ (ncursor' = ncursor + 1 /\ last'.cop.op = "evict") =>
            \A c \in DOMAIN cursors :
                (CoupledInLeaf(pages, cursors, c)
                        /\ cursors[c].page = last'.cop.page)
                    => /\ cursors'[c].state = "uncoupled"
                       /\ cursors'[c].key = CursorKey(pages, cursors, c)
                       /\ Find(pages', root', cursors'[c].key).found
                       /\ pages'[last'.cop.page].cursor_list = NoCursor
        /\ (ncursor' = ncursor + 1 /\ last'.cop.op = "move_next"
                /\ last.cop.op = "evict") =>
            \A c \in DOMAIN cursors :
                (c = last'.cop.c /\ cursors[c].state = "uncoupled"
                        /\ Find(pages, root, cursors[c].key).found)
                    => IF Followers(pages, root, cursors[c].key) = {}
                       THEN last'.cop.status = HAM_KEY_NOT_FOUND
                       ELSE /\ last'.cop.status = HAM_SUCCESS
                            /\ last'.cop.key
                                 = Successor(pages, root, cursors[c].key)
                            /\ CoupledInLeaf(pages', cursors', c)
                            /\ CursorKey(pages', cursors', c)
                                 = last'.cop.key
      ]_vars

\* a cursor that the eviction of its page had uncoupled was moved to the
\* first key of the right sibling of that page
C19_Witness ==
    /\ last.cop.op = "move_next"
    /\ last.cop.page # 0
    /\ last.cop.status = HAM_SUCCESS
    /\ CoupledInLeaf(pages, cursors, last.cop.c)
    /\ cursors[last.cop.c].slot = 0
    /\ cursors[last.cop.c].page = pages[last.cop.page].right
    /\ CursorKey(pages, cursors, last.cop.c) = last.cop.key

Primary(po) == po.descs[po.datap]

(***************************************************************************)
(* C22: Page::flush of a page that is not dirty writes nothing; of a dirty *)
(* page it writes the whole page once, clears the dirty bit and adds one   *)
(* to the counter of flushed pages, so that a flush repeated at once       *)
(* writes nothing.                                                         *)
(***************************************************************************)
C22_FlushOnce ==
    [][ (pageobj'.nops = pageobj.nops + 1 /\ pageobj'.op = "flush") =>
            LET d == pageobj'.arg
            IN /\ ~pageobj'.descs[d].is_dirty
               /\ IF pageobj.descs[d].is_dirty
                  THEN /\ Len(pageobj'.written) = Len(pageobj.written) + 1
                       /\ pageobj'.flushed = pageobj.flushed + 1
                       /\ pageobj'.written[Len(pageobj'.written)].address
                            = pageobj.descs[d].address
                       /\ pageobj'.written[Len(pageobj'.written)].size
                            = pageobj.descs[d].size
                       /\ pageobj'.written[Len(pageobj'.written)].data.payload
                            = pageobj.bufs[pageobj.descs[d].raw_data].payload
                  ELSE /\ pageobj'.written = pageobj.written
                       /\ pageobj'.flushed = pageobj.flushed
                       /\ pageobj'.bufs = pageobj.bufs
      ]_vars

\* a page was flushed twice in a row after it was written: one write
C22_Witness ==
    /\ pageobj.op = "flush" /\ pageobj.pop = "flush"
    /\ pageobj.datap = 0 /\ Shadows(pageobj) = {}
    /\ Len(pageobj.written) = 1
    /\ pageobj.flushed = 1
    /\ ~Primary(pageobj).is_dirty

\* the page that the last flush has written to the device
LastWritten(po) == po.written[Len(po.written)]

\* the hash of the payload of a written page, seeded with its own address
HashWritten(w) ==
    MurmurHash3_x86_32(w.data.payload, w.size - PPageHeaderSize + 1,
                       w.address.lo)

PageImage(po) ==
    [data |-> po.bufs[Primary(po).raw_data],
     address |-> Primary(po).address,
     size |-> Primary(po).size,
     is_dirty |-> Primary(po).is_dirty]

(***************************************************************************)
(* C24: Page::deep_copy_data of a page that has a buffer installs a new    *)
(* primary descriptor, with a buffer of its own, whose bytes, address,     *)
(* size and dirty bit are those before the call; it returns the old        *)
(* primary descriptor if that was a heap descriptor and null if it was the *)
(* inline one; and when the returned shadow is discarded the page is what  *)
(* it was before the discard.                                              *)
(***************************************************************************)
C24_DeepCopy ==
    [][ /\ (/\ pageobj'.nops = pageobj.nops + 1
            /\ pageobj'.op = "deep_copy_data"
            /\ Primary(pageobj).raw_data # 0)
                => /\ ~pageobj'.crashed
                   /\ pageobj'.datap # pageobj.datap
                   /\ pageobj'.datap # 0
                   /\ ~pageobj.descs[pageobj'.datap].live
                   /\ Primary(pageobj').raw_data # Primary(pageobj).raw_data
                   /\ ~pageobj.bufs[Primary(pageobj').raw_data].live
                   /\ PageImage(pageobj') = PageImage(pageobj)
                   /\ pageobj'.ret = pageobj.datap
                   /\ pageobj'.descs[pageobj.datap]
                        = pageobj.descs[pageobj.datap]
                   /\ pageobj'.bufs[Primary(pageobj).raw_data]
                        = pageobj.bufs[Primary(pageobj).raw_data]
                   /\ ~pageobj'.node_proxy
        /\ (/\ pageobj'.nops = pageobj.nops + 1
            /\ pageobj'.op = "discard")
                => /\ pageobj'.bufs[Primary(pageobj').raw_data].live
                   /\ PageImage(pageobj') = PageImage(pageobj)
                   /\ pageobj'.datap = pageobj.datap
      ]_vars

\* the shadow that a deep copy of a page with a heap descriptor returned
\* was discarded at once
C24_Witness ==
    /\ pageobj.op = "discard" /\ pageobj.pop = "deep_copy_data"
    /\ pageobj.arg = pageobj.ret
    /\ pageobj.ret # 0
    /\ pageobj.datap # 0
    /\ Primary(pageobj).is_dirty

\* the page of a visit is under-full: a root with at most one key, another
\* page with at most minkeys keys
UnderFull(v) ==
    IF v.isroot THEN v.node.count <= 1
    ELSE v.node.count <= btree_get_minkeys(maxkeys)

\* the first visit of the unbroken run of under-full pages that ends with
\* visit n
RunStart(vs, n) ==
    CHOOSE j \in 1..n :
        /\ \A i \in j..n : UnderFull(vs[i])
        /\ \A i \in 1..(j - 1) : \E h \in i..n : ~UnderFull(vs[h])

(***************************************************************************)
(* C25: when my_erase_recursive reaches a page, mergepage is cleared if    *)
(* the page is not under-full, and otherwise set to the page only if it    *)
(* was null; so at the leaf mergepage is non-null exactly when the leaf is *)
(* under-full, and it is then the topmost page of the unbroken run of      *)
(* under-full pages that ends at the leaf.                                 *)
(***************************************************************************)
C25_MergepageMarks ==
    \A n \in 1..Len(last.visits) :
        LET v == last.visits[n]
        IN /\ v.before = (IF n = 1 THEN 0 ELSE last.visits[n - 1].after)
           /\ v.after = (IF ~UnderFull(v) THEN 0
                         ELSE IF v.before = 0 THEN v.page
                         ELSE v.before)
           /\ v.node.leaf =>
                /\ (v.after # 0) <=> UnderFull(v)
                /\ UnderFull(v) =>
                    v.after = last.visits[RunStart(last.visits, n)].page

\* an erase went through an under-full internal node into an under-full
\* leaf: mergepage is the internal node
C25_Witness ==
    /\ Len(last.visits) >= 2
    /\ last.visits[Len(last.visits)].node.leaf
    /\ last.visits[Len(last.visits)].after # 0
    /\ last.visits[Len(last.visits)].after
            # last.visits[Len(last.visits)].page

(***************************************************************************)
(* C26: at every level of my_erase_recursive the arguments left and right  *)
(* are the left and the right sibling pointer of the page (0 when there is *)
(* none), also when the child is the first or the last child of its        *)
(* parent.                                                                 *)
(***************************************************************************)
C26_NeighboursAdjacent ==
    \A n \in 1..Len(last.visits) :
        /\ last.visits[n].left = last.visits[n].node.left
        /\ last.visits[n].right = last.visits[n].node.right

\* the child pointers of a node, in order
ChildSeq(node) ==
    <<node.ptr_left>> \o [i \in 1..node.count |-> node.slots[i].ptr]

\* the merges my_rebalance has called in the last erase
MergeCalls == {n \in 1..Len(last.moves) : last.moves[n].op = "merge"}

(***************************************************************************)
(* C27: whenever my_rebalance calls my_merge_pages(page, sibpage, anchor), *)
(* both pages are non-null, sibpage is the right sibling of page, both are *)
(* under-full children of the same parent, anchor is that parent, and the  *)
(* two counts (plus one for the separator of internal nodes) do not exceed *)
(* maxkeys; and the entry the caller then removes from the parent is the   *)
(* entry that points to the freed sibpage.                                 *)
(***************************************************************************)
C27_MergePrecondition ==
    \A n \in MergeCalls :
        LET m == last.moves[n]
            mk == btree_get_minkeys(maxkeys)
        IN /\ m.page # 0 /\ m.sib # 0
           /\ m.pre[m.page].live /\ m.pre[m.sib].live
           /\ m.pre[m.page].right = m.sib
           /\ m.pre[m.sib].left = m.page
           /\ m.pre[m.page].count <= mk
           /\ m.pre[m.sib].count <= mk
           /\ m.anchor = m.parent
           /\ \E i \in 1..Len(ChildSeq(m.pre[m.parent])) - 1 :
                /\ ChildSeq(m.pre[m.parent])[i] = m.page
                /\ ChildSeq(m.pre[m.parent])[i + 1] = m.sib
           /\ m.pre[m.page].count + m.pre[m.sib].count
                + (IF m.pre[m.page].leaf THEN 0 ELSE 1) <= maxkeys
           /\ m.ok =>
                /\ n < Len(last.moves)
                /\ last.moves[n + 1].op = "remove"
                /\ last.moves[n + 1].page = m.parent
                /\ last.moves[n + 1].sib = m.sib
                /\ last.moves[n + 1].pre[m.parent]
                        .slots[last.moves[n + 1].slot + 1].ptr = m.sib
                /\ ~last.moves[n + 1].pre[m.sib].live

\* an erase has merged two internal nodes and removed the entry of the
\* freed node from their parent
C27_Witness ==
    \E n \in MergeCalls :
        /\ ~last.moves[n].pre[last.moves[n].page].leaf
        /\ n < Len(last.moves)
        /\ last.moves[n + 1].op = "remove"
        /\ last.status = HAM_SUCCESS

\* the keys of a node, in order
KeySeq(node) == [i \in 1..node.count |-> node.slots[i].k]

\* the key of the anchor's entry that points to page p
SeparatorOf(ancnode, p) ==
    ancnode.slots[CHOOSE i \in 1..ancnode.count :
                        ancnode.slots[i].ptr = p].k

(***************************************************************************)
(* C28: after my_merge_pages of two internal nodes, page holds its old     *)
(* keys, then the anchor's separator of sibpage with sibpage's old         *)
(* ptr_left as child, then the keys of sibpage; its child pointers are the *)
(* child pointers of the two nodes, one after the other; sibpage has count *)
(* 0 and is freed.  After a merge of two leaves page holds its old keys    *)
(* and then the keys of sibpage.                                           *)
(***************************************************************************)
C28_MergeResult ==
    \A n \in MergeCalls :
        LET m == last.moves[n]
        IN m.ok =>
            /\ m.post[m.sib].count = 0
            /\ ~m.post[m.sib].live
            /\ m.sib \in last.freed
            /\ m.post[m.page].live
            /\ IF m.pre[m.page].leaf
               THEN KeySeq(m.post[m.page])
                        = KeySeq(m.pre[m.page]) \o KeySeq(m.pre[m.sib])
               ELSE /\ KeySeq(m.post[m.page])
                        = KeySeq(m.pre[m.page])
                            \o <<SeparatorOf(m.pre[m.anchor], m.sib)>>
                            \o KeySeq(m.pre[m.sib])
                    /\ ChildSeq(m.post[m.page])
                        = ChildSeq(m.pre[m.page]) \o ChildSeq(m.pre[m.sib])

\* an erase has merged two internal nodes, and an erase two leaves
C28_Witness ==
    /\ \E n \in MergeCalls :
            /\ ~last.moves[n].pre[last.moves[n].page].leaf
            /\ last.moves[n].ok
            /\ last.moves[n].post[last.moves[n].page].count = maxkeys
    /\ \E n \in MergeCalls : last.moves[n].pre[last.moves[n].page].leaf

RECURSIVE Below(_, _, _)
\* the pages of the subtree of page p
Below(pg, p, fuel) ==
    IF p = 0 \/ fuel = 0 THEN {}
    ELSE {p} \cup UNION {Below(pg, c, fuel - 1) : c \in Children(pg, p)}

\* the slot (from 1) of the anchor's entry whose subtree holds page p: the
\* entry that separates p from the page to its left
SepSlot(pg, anchor, p) ==
    CHOOSE i \in 1..pg[anchor].count :
        p \in Below(pg, pg[anchor].slots[i].ptr, 3)

\* the shifts my_rebalance has called in the last erase
ShiftCalls == {n \in 1..Len(last.moves) : last.moves[n].op = "shift"}

\* the keys from page to sibpage: of two internal nodes with the anchor's
\* separator between them
SpanKeys(pg, m) ==
    IF pg[m.page].leaf THEN KeySeq(pg[m.page]) \o KeySeq(pg[m.sib])
    ELSE KeySeq(pg[m.page])
            \o <<pg[m.anchor].slots[SepSlot(m.pre, m.anchor, m.sib)].k>>
            \o KeySeq(pg[m.sib])

\* the pointers from page to sibpage: the child pointers of two internal
\* nodes, the record ids of two leaves
SpanPtrs(pg, m) ==
    IF pg[m.page].leaf
    THEN [i \in 1..pg[m.page].count |-> pg[m.page].slots[i].ptr]
            \o [i \in 1..pg[m.sib].count |-> pg[m.sib].slots[i].ptr]
    ELSE ChildSeq(pg[m.page]) \o ChildSeq(pg[m.sib])

\* the absolute difference of the counts of the two pages
CountGap(pg, m) ==
    IF pg[m.page].count >= pg[m.sib].count
    THEN pg[m.page].count - pg[m.sib].count
    ELSE pg[m.sib].count - pg[m.page].count

(***************************************************************************)
(* C29: my_shift_pages preserves the content and balances: the keys and    *)
(* the child pointers from page over the anchor's separator to sibpage are *)
(* the same sequence before and after, and afterwards the counts of page   *)
(* and sibpage differ by at most one.                                      *)
(***************************************************************************)
C29_ShiftPreserves ==
    \A n \in ShiftCalls :
        LET m == last.moves[n]
        IN m.ok =>
            /\ SpanKeys(m.post, m) = SpanKeys(m.pre, m)
            /\ SpanPtrs(m.post, m) = SpanPtrs(m.pre, m)
            /\ CountGap(m.post, m) <= 1

\* an erase has shifted keys between two internal nodes below different
\* counts, and the counts have changed
C29_Witness ==
    \E n \in ShiftCalls :
        /\ last.moves[n].ok
        /\ ~last.moves[n].pre[last.moves[n].page].leaf
        /\ CountGap(last.moves[n].pre, last.moves[n]) >= 3
        /\ last.moves[n].post[last.moves[n].page].count
                # last.moves[n].pre[last.moves[n].page].count

\* the shifts of the last erase that moved keys between two leaves
LeafShifts ==
    {n \in ShiftCalls :
        /\ last.moves[n].ok
        /\ last.moves[n].pre[last.moves[n].page].leaf
        /\ last.moves[n].post[last.moves[n].page].count
                # last.moves[n].pre[last.moves[n].page].count}

(***************************************************************************)
(* C30: after a shift between two leaves, in either direction, the key of  *)
(* the anchor's entry that separates the two pages is the new smallest key *)
(* of the right page, and no other entry of the anchor has changed.        *)
(***************************************************************************)
C30_LeafShiftAnchor ==
    \A n \in LeafShifts :
        LET m == last.moves[n]
            j == SepSlot(m.pre, m.anchor, m.sib)
        IN /\ m.pre[m.page].right = m.sib
           /\ m.post[m.anchor].slots[j].k = m.post[m.sib].slots[1].k
           /\ m.post[m.anchor].count = m.pre[m.anchor].count
           /\ m.post[m.anchor].ptr_left = m.pre[m.anchor].ptr_left
           /\ \A i \in 1..maxkeys :
                /\ m.post[m.anchor].slots[i].ptr = m.pre[m.anchor].slots[i].ptr
                /\ i # j => m.post[m.anchor].slots[i]
                                = m.pre[m.anchor].slots[i]

\* an erase has shifted keys from the left leaf to the right one, and the
\* anchor's second or a later entry was rewritten
C30_Witness ==
    \E n \in LeafShifts :
        /\ last.moves[n].pre[last.moves[n].anchor].count >= 2
        /\ SepSlot(last.moves[n].pre, last.moves[n].anchor,
                   last.moves[n].sib) >= 2
        /\ last.moves[n].post[last.moves[n].sib].count
                > last.moves[n].pre[last.moves[n].sib].count
        /\ last.moves[n].post[last.moves[n].anchor]
                # last.moves[n].pre[last.moves[n].anchor]

Rebalanced(n) == last.moves[n - 1].page

\* the shifts of the last erase that had the choice between two siblings
\* under one anchor, neither of them too empty
TieShifts ==
    {n \in ShiftCalls :
        /\ n > 1
        /\ last.moves[n - 1].op = "remove"
        /\ LET m == last.moves[n]
               p == Rebalanced(n)
           IN /\ m.pre[p].left # 0 /\ m.pre[p].right # 0
              /\ m.pre[m.pre[p].left].count > btree_get_minkeys(maxkeys)
              /\ m.pre[m.pre[p].right].count > btree_get_minkeys(maxkeys)
              /\ \E i \in 2..m.pre[m.parent].count :
                    /\ ChildSeq(m.pre[m.parent])[i] = p
                    /\ ChildSeq(m.pre[m.parent])[i - 1] = m.pre[p].left
                    /\ ChildSeq(m.pre[m.parent])[i + 1] = m.pre[p].right}

(***************************************************************************)
(* C32: when both siblings exist, neither is under-full and they have the  *)
(* same anchor, my_rebalance shifts from the sibling that has more keys:   *)
(* from the right sibling when the left one has fewer keys, from the left  *)
(* sibling when the right one has fewer keys.                              *)
(***************************************************************************)
C32_ShiftFromLarger ==
    \A n \in TieShifts :
        LET m == last.moves[n]
            p == Rebalanced(n)
            l == m.pre[p].left
            r == m.pre[p].right
        IN /\ m.anchor = m.parent
           /\ m.pre[l].count < m.pre[r].count
                => m.page = p /\ m.sib = r
           /\ m.pre[r].count < m.pre[l].count
                => m.page = l /\ m.sib = p

\* an erase has shifted from a left sibling that had more keys than the
\* right sibling
C32_Witness ==
    \E n \in TieShifts :
        /\ last.moves[n].sib = Rebalanced(n)
        /\ last.moves[n].pre[last.moves[n].page].count
            > last.moves[n].pre[last.moves[n].pre[Rebalanced(n)].right].count

(***************************************************************************)
(* C33: after any sequence of erases no key of an internal node carries    *)
(* the TINY, SMALL or EMPTY flag.                                          *)
(***************************************************************************)
C33_InternalKeysUnflagged ==
    \A ps \in LiveSlots :
        ~pages[ps[1]].leaf => KeyAt(ps).flags \cap BlobFlags = {}

\* an erase has shifted two leaves and rewritten the anchor with a leaf key
\* that carries a blob flag
C33_Witness ==
    \E n \in LeafShifts :
        LET m == last.moves[n]
        IN /\ m.post[m.sib].slots[1].flags \cap BlobFlags # {}
           /\ m.post[m.anchor].slots[SepSlot(m.pre, m.anchor, m.sib)].k
                # m.pre[m.anchor].slots[SepSlot(m.pre, m.anchor, m.sib)].k
           /\ pages = m.post
           /\ nerase = 2

\* C34: the hash that the flush of a dirty page with a header stamps under
\* CRC differs from the hash the same flush stamps on the same page at any
\* other address, addresses 2^32 apart included
C34_SeedsDiffer ==
    [][ (/\ pageobj'.nops = pageobj.nops + 1 /\ pageobj'.op = "flush"
         /\ pageobj.descs[pageobj'.arg].is_dirty
         /\ pageobj.crc
         /\ ~pageobj.descs[pageobj'.arg].is_without_header)
            => \A b \in Addresses \ {pageobj.descs[pageobj'.arg].address} :
                    LastWritten(flush([pageobj EXCEPT
                                          !.descs[pageobj'.arg].address = b],
                                      pageobj'.arg, TRUE)).data.crc32
                        # LastWritten(pageobj').data.crc32
      ]_vars

C36_NotFoundChangesNothing ==
    [][ (nerase' = nerase + 1 /\ ~Find(pages, root, last'.key).found)
            => /\ last'.status = HAM_KEY_NOT_FOUND
               /\ pages' = pages
               /\ root' = root
               /\ blobs' = blobs
               /\ last'.freed = {}
               /\ ~last'.wrote
               /\ last'.rid = 0 /\ last'.intflags = {}
      ]_vars

\* a key between two keys of a leaf of a tree of height three was erased
\* after a successful erase: not found, and the descent reached the leaf
C36_Witness ==
    /\ nerase = 2
    /\ last.status = HAM_KEY_NOT_FOUND
    /\ Len(last.visits) = 3
    /\ \E i \in 1..maxkeys :
            /\ i <= pages[last.visits[3].page].count
            /\ pages[last.visits[3].page].slots[i].k < last.key
    /\ \E p \in PageIds : pages[p].live /\ pages[p].dirty

\* the arrival of the last erase at the page its descent ended in
LeafVisit(call) == call.visits[Len(call.visits)]

(***************************************************************************)
(* C37: a successful btree_erase of a key whose leaf is not under-full     *)
(* before the call (more than minkeys keys, or more than one key in a root *)
(* leaf) changes only that leaf: every other page, separator keys          *)
(* included, is as it was, no page is freed and the root pointer is        *)
(* unchanged; the leaf loses the slot of the key and is dirty.             *)
(***************************************************************************)
C37_OnlyTheLeafChanges ==
    [][ (/\ nerase' = nerase + 1
         /\ last'.status = HAM_SUCCESS
         /\ Find(pages, root, last'.key).found
         /\ ~UnderFull(LeafVisit(last')))
            => LET leaf == Find(pages, root, last'.key).page
               IN /\ LeafVisit(last').page = leaf
                  /\ \A p \in PageIds \ {leaf} : pages'[p] = pages[p]
                  /\ root' = root
                  /\ last'.freed = {}
                  /\ last'.merges = 0 /\ last'.shifts = 0
                  /\ pages'[leaf].live /\ pages'[leaf].dirty
                  /\ pages'[leaf].count = pages[leaf].count - 1
                  /\ pages'[leaf].left = pages[leaf].left
                  /\ pages'[leaf].right = pages[leaf].right
      ]_vars

\* the first key of a leaf with minkeys + 1 keys, below under-full
\* ancestors, was erased: the leaf is left with minkeys keys and its
\* separator in the parent still is the erased key
C37_Witness ==
    /\ nerase >= 1
    /\ last.status = HAM_SUCCESS
    /\ Len(last.visits) = 3
    /\ ~UnderFull(LeafVisit(last))
    /\ UnderFull(last.visits[2])
    /\ LeafVisit(last).node.count = btree_get_minkeys(maxkeys) + 1
    /\ LeafVisit(last).node.slots[1].k = last.key
    /\ \E i \in 1..maxkeys :
            /\ i <= pages[LeafVisit(last).parent].count
            /\ pages[LeafVisit(last).parent].slots[i].k = last.key

RECURSIVE LeafDepths(_, _, _)
\* the depths, counted from page p, of the leaves of the subtree of p
LeafDepths(pg, p, fuel) ==
    IF p = 0 \/ fuel = 0 THEN {-1}
    ELSE IF pg[p].leaf THEN {0}
    ELSE {1 + d : d \in UNION {LeafDepths(pg, c, fuel - 1) :
                                    c \in Children(pg, p)}}

\* the child pointers of the tree that point to page p
ParentPointers(p) ==
    {qi \in Below(pages, root, MaxPages) \X (-1..(maxkeys - 1)) :
        /\ ~pages[qi[1]].leaf
        /\ qi[2] < pages[qi[1]].count
        /\ ChildAt(pages, qi[1], qi[2]) = p}

(***************************************************************************)
(* C38: after any sequence of erases all leaves are at the same depth from *)
(* the root, every page reachable from the root is live, and every         *)
(* reachable page but the root is reached through exactly one child        *)
(* pointer (the root through none).                                        *)
(***************************************************************************)
C38_BalancedAndLive ==
    root # 0 =>
        /\ Cardinality(LeafDepths(pages, root, MaxPages)) = 1
        /\ -1 \notin LeafDepths(pages, root, MaxPages)
        /\ \A p \in Below(pages, root, MaxPages) :
                /\ pages[p].live
                /\ Cardinality(ParentPointers(p))
                        = (IF p = root THEN 0 ELSE 1)

\* two erases, each with a merge, have collapsed the root of a tree of
\* height three
C38_Witness ==
    /\ nerase = 2
    /\ last.merges = 2 /\ last.bedirty
    /\ last.freed # {}
    /\ ~pages[root].leaf
    /\ LeafDepths(pages, root, MaxPages) = {1}

\* the persisted bytes of a page: all but the in-memory attributes
PageBytes(n) ==
    [leaf |-> n.leaf, count |-> n.count, ptr_left |-> n.ptr_left,
     left |-> n.left, right |-> n.right, slots |-> n.slots, type |-> n.type]

\* the pages whose bytes the step has changed
ChangedPages == {p \in PageIds : PageBytes(pages'[p]) # PageBytes(pages[p])}

(***************************************************************************)
(* C39: after a successful btree_erase every page whose bytes differ from  *)
(* their value before the call (the edited leaf, merged or shifted         *)
(* siblings, rewritten anchors, neighbours whose sibling pointer was       *)
(* patched, a new root whose type was changed) has its dirty bit set.      *)
(***************************************************************************)
C39_ChangedPagesDirty ==
    [][ (nerase' = nerase + 1 /\ last'.status = HAM_SUCCESS)
            => \A p \in ChangedPages : pages'[p].dirty
      ]_vars

(***************************************************************************)
(* C40: after a successful btree_erase every extended-key blob that is     *)
(* still allocated is referenced by a key slot in use of a live page: the  *)
(* blob of a key that a shift, a merge or a removal has overwritten or     *)
(* dropped has been freed.                                                 *)
(***************************************************************************)
C40_NoBlobLeaked ==
    last.status = HAM_SUCCESS => blobs \subseteq SlotBlobs(pages)

====
